---- MODULE Spec2Model ----
(***************************************************************************)
(* Query understanding and retrieval pipeline of the AI bookstore:         *)
(* IntentClassifier, EntityExtractor, QueryProcessor, QueryRouter and      *)
(* QueryRetriever (src/src/query).                                         *)
(*                                                                         *)
(* Queries are character strings.  Substring tests (`kw in query`) and the *)
(* regular expressions of the source are evaluated on the characters.      *)
(* Numbers: a confidence is counted in tenths (0.3 -> 3, 1.0 -> 10), a     *)
(* price in cents, a rating in tenths.  The scores 3k + 5p below the cap   *)
(* are pairwise distinct for distinct (k, p), so the order of the tenths   *)
(* is the order of the floats the source computes.  A mean is kept as the  *)
(* numbers it adds and its divisor; its value is computed as the IEEE 754  *)
(* double the source computes, a pair [m, k] standing for m * 2^(-k).      *)
(***************************************************************************)
EXTENDS Integers, Sequences, FiniteSets, TLC

VARIABLES
    userQuery,    \* the query string this run is about
    hashOrder,    \* iteration order of a set of genre names in the running interpreter
    parsedNow,    \* process(userQuery) as the running interpreter computes it
    interpreters, \* number of interpreters started so far
    parsed,       \* the ParsedQuery values process has returned, in call order
    handlers,     \* QueryRouter.handlers: a dict intent -> handler
    nreg,         \* number of register_handler calls made so far
    outcome,      \* what the route call made on the current registry produced
    invoked,      \* the handler invocations of that route call, in order
    indexHits,    \* the ranked hits the search collaborator holds for the query
    strategy,     \* the retriever strategy called last
    searchCalls,  \* the calls of indexer.search_books made by that strategy
    result,       \* what that strategy returned
    indexError,   \* the exception the search collaborator raises when called, if any
    lastRegistered, \* per intent, the handler of the latest register_handler call
    tasks         \* the route calls in flight, one per thread, and their locals

vars == <<userQuery, hashOrder, parsedNow, interpreters, parsed, handlers, nreg,
          outcome, invoked, indexHits, strategy, searchCalls, result,
          indexError, lastRegistered, tasks>>

(***************************************************************************)
(* Bounds of the model.                                                    *)
(***************************************************************************)
\* phrases of the vocabulary the queries are made of
NumPhrases == 13
\* calls of process on the query
MaxCalls == 2
\* interpreters started, each with its own string hash seed
MaxInterpreters == 2
\* register_handler calls
MaxRegistrations == 2
\* threads that call route at the same time
MaxThreads == 2
\* hits the collaborator holds for a query
MaxHits == 4
\* phrases of the vocabulary the constraint queries are made of
NumConstraints == 19
\* the numbers N of the limit phrases "top N", "N books", "first N"
MaxLimit == 3

(***************************************************************************)
(* Strings.                                                                *)
(***************************************************************************)
CharAt(s, i) == SubSeq(s, i, i)

HasAt(s, i, lit) ==
    /\ i >= 1
    /\ i + Len(lit) - 1 <= Len(s)
    /\ SubSeq(s, i, i + Len(lit) - 1) = lit

\* Python's `lit in s`
Contains(s, lit) ==
    LET n == Len(lit)
    IN  \E i \in 1..(Len(s) - n + 1) : SubSeq(s, i, i + n - 1) = lit

UpperChars == "ABCDEFGHIJKLMNOPQRSTUVWXYZ"
LowerChars == "abcdefghijklmnopqrstuvwxyz"
DigitChars == "0123456789"

IsSpace(c) == c = " "
IsDigit(c) == \E i \in 1..10 : CharAt(DigitChars, i) = c
IsWordChar(c) ==
    \/ IsDigit(c)
    \/ c = "_"
    \/ \E i \in 1..26 : CharAt(LowerChars, i) = c \/ CharAt(UpperChars, i) = c

DigitVal(c) == (CHOOSE i \in 1..10 : CharAt(DigitChars, i) = c) - 1

LowerChar(c) ==
    IF \E i \in 1..26 : CharAt(UpperChars, i) = c
    THEN CharAt(LowerChars, CHOOSE i \in 1..26 : CharAt(UpperChars, i) = c)
    ELSE c

RECURSIVE LowerFrom(_, _)
LowerFrom(s, i) ==
    IF i > Len(s) THEN "" ELSE LowerChar(CharAt(s, i)) \o LowerFrom(s, i + 1)

\* str.lower()
Lower(s) == LowerFrom(s, 1)

\* str.strip()
Strip(s) ==
    LET nonsp == {i \in 1..Len(s) : ~IsSpace(CharAt(s, i))}
    IN  IF nonsp = {} THEN ""
        ELSE SubSeq(s, CHOOSE i \in nonsp : \A j \in nonsp : i <= j,
                       CHOOSE i \in nonsp : \A j \in nonsp : j <= i)

\* number of whitespace-separated words: len(query.split())
WordCount(s) ==
    Cardinality({i \in 1..Len(s) :
        /\ ~IsSpace(CharAt(s, i))
        /\ (i = 1 \/ IsSpace(CharAt(s, i - 1)))})

\* re.findall(r'\b\w+\b', s): the maximal runs of word characters, in order
RECURSIVE WordsFrom(_, _)
WordsFrom(s, i) ==
    IF i > Len(s) THEN <<>>
    ELSE IF ~IsWordChar(CharAt(s, i)) THEN WordsFrom(s, i + 1)
    ELSE LET stops == {j \in i..Len(s) : ~IsWordChar(CharAt(s, j))}
             e == IF stops = {} THEN Len(s) + 1
                  ELSE CHOOSE j \in stops : \A k \in stops : j <= k
         IN  <<SubSeq(s, i, e - 1)>> \o WordsFrom(s, e)

(***************************************************************************)
(* Regular expressions.  A pattern is a sequence of parts:                 *)
(*   [t |-> "alt", v |-> S]   one of the literals of S                     *)
(*   [t |-> "ws"]             \s+                                          *)
(*   [t |-> "money"]          \d+(?:\.\d{2})?                              *)
(*   [t |-> "rating"]         \d(?:\.\d)?                                  *)
(*   [t |-> "digits"]         \d+                                          *)
(*   [t |-> "digit"]          \d                                           *)
(*   [t |-> "opt", v |-> l]   the literal l, optional                      *)
(* EndsOf(s, i, parts, k) is the set of positions where a match of         *)
(* parts[k..] that starts at position i can end.                           *)
(***************************************************************************)
Alt(S) == [t |-> "alt", v |-> S]
Opt(l) == [t |-> "opt", v |-> l]
Ws == [t |-> "ws"]
Digits == [t |-> "digits"]
Digit == [t |-> "digit"]
Money == [t |-> "money"]
Rating == [t |-> "rating"]

IsDigitAt(s, i) == i >= 1 /\ i <= Len(s) /\ IsDigit(CharAt(s, i))

\* whether the character is of the class \s ("space") or \d ("digit")
IsOfClass(c, class) == IF class = "digit" THEN IsDigit(c) ELSE IsSpace(c)

\* where a non-empty run of characters of the class from position i can end
RunEnds(s, i, class) ==
    {j \in (i + 1)..(Len(s) + 1) :
        \A m \in i..(j - 1) : IsOfClass(CharAt(s, m), class)}

Elements(seq) == {seq[k] : k \in 1..Len(seq)}

Least(S) == CHOOSE x \in S : \A y \in S : x <= y
Greatest(S) == CHOOSE x \in S : \A y \in S : y <= x

PartEnds(s, i, p) ==
    CASE p.t = "alt" -> {i + Len(a) : a \in {a \in p.v : HasAt(s, i, a)}}
      [] p.t = "opt" -> {i} \cup (IF HasAt(s, i, p.v) THEN {i + Len(p.v)} ELSE {})
      [] p.t = "ws" -> RunEnds(s, i, "space")
      [] p.t = "digits" -> RunEnds(s, i, "digit")
      [] p.t = "digit" -> IF IsDigitAt(s, i) THEN {i + 1} ELSE {}
      [] p.t = "money" ->
            LET whole == RunEnds(s, i, "digit")
            IN  whole \cup {e + 3 : e \in {e \in whole :
                    HasAt(s, e, ".") /\ IsDigitAt(s, e + 1) /\ IsDigitAt(s, e + 2)}}
      [] p.t = "rating" ->
            IF ~IsDigitAt(s, i) THEN {}
            ELSE {i + 1} \cup
                 (IF HasAt(s, i + 1, ".") /\ IsDigitAt(s, i + 2) THEN {i + 3} ELSE {})

RECURSIVE EndsOf(_, _, _, _)
EndsOf(s, i, parts, k) ==
    IF k > Len(parts) THEN {i}
    ELSE UNION {EndsOf(s, j, parts, k + 1) : j \in PartEnds(s, i, parts[k])}

\* the positions where a match of the pattern starts
MatchStarts(parts, s) == {i \in 1..(Len(s) + 1) : EndsOf(s, i, parts, 1) # {}}

\* re.search(pattern, s) is not None
Search(parts, s) == \E i \in 1..(Len(s) + 1) : EndsOf(s, i, parts, 1) # {}

\* where the group g can end when it starts at j and post must follow it
GroupEnds(s, j, g, post) ==
    {e \in PartEnds(s, j, g) : EndsOf(s, e, post, 1) # {}}

\* where the group starts: the quantifiers before it take as much as they can
GroupFrom(s, starts, g, post) ==
    Greatest({j \in starts : GroupEnds(s, j, g, post) # {}})

\* the span of the group from its start on: the group takes as much as it can
SpanFrom(s, from, g, post) ==
    [from |-> from, to |-> Greatest(GroupEnds(s, from, g, post))]

\* In the match re.search returns for pre \o <<g>> \o post (the leftmost one):
\* where the group g starts and ends.
MidGroup(pre, g, post, s) ==
    SpanFrom(s,
             GroupFrom(s, EndsOf(s, Least(MatchStarts(pre \o <<g>> \o post, s)),
                                 pre, 1),
                       g, post),
             g, post)

\* the same for the last part of a pattern
LastGroup(parts, s) ==
    MidGroup(SubSeq(parts, 1, Len(parts) - 1), parts[Len(parts)], <<>>, s)

RECURSIVE ParseInt(_, _, _)
\* int() of the digits s[from .. to-1]
ParseInt(s, from, to) ==
    IF to <= from THEN 0
    ELSE ParseInt(s, from, to - 1) * 10 + DigitVal(CharAt(s, to - 1))

\* float() of a captured \d+(?:\.\d{2})?, in cents
Cents(s, g) ==
    IF g.to - g.from >= 4 /\ CharAt(s, g.to - 3) = "."
    THEN ParseInt(s, g.from, g.to - 3) * 100 + ParseInt(s, g.to - 2, g.to)
    ELSE ParseInt(s, g.from, g.to) * 100

\* float() of a captured \d(?:\.\d)?, in tenths
Tenths(s, g) ==
    IF g.to - g.from = 3
    THEN DigitVal(CharAt(s, g.from)) * 10 + DigitVal(CharAt(s, g.to - 1))
    ELSE DigitVal(CharAt(s, g.from)) * 10

(***************************************************************************)
(* IntentClassifier (intent_classifier.py).                                *)
(***************************************************************************)
\* QueryIntent, in the order of the enumeration
QueryIntent ==
    <<"search", "recommendation", "comparison", "analytics", "filter",
      "information", "unknown">>

Intents == {QueryIntent[i] : i \in 1..Len(QueryIntent)}

UNKNOWN == "unknown"

\* the member names of the enumeration
IntentName ==
    [i \in Intents |->
        CASE i = "search" -> "SEARCH"
          [] i = "recommendation" -> "RECOMMENDATION"
          [] i = "comparison" -> "COMPARISON"
          [] i = "analytics" -> "ANALYTICS"
          [] i = "filter" -> "FILTER"
          [] i = "information" -> "INFORMATION"
          [] i = "unknown" -> "UNKNOWN"]

Dollar == Opt("$")

\* self.intent_patterns[intent]['keywords'], in the order of QueryIntent
IntentKeywordTable ==
    << {"find", "search", "looking for", "show me", "get", "want", "need"},
       {"recommend", "suggest", "similar", "like", "based on"},
       {"compare", "cheaper", "better", "versus", "vs", "difference", "which"},
       {"most popular", "average", "statistics", "how many", "total", "count"},
       {"under", "over", "between", "more than", "less than", "only"},
       {"tell me about", "information", "details", "describe", "what is"} >>

\* self.intent_patterns[intent]['patterns'], in the order of QueryIntent
IntentPatternTable ==
    << \* Search
       << <<Alt({"find", "search", "looking for", "show me", "get me"}), Ws,
            Alt({"book", "novel"}), Opt("s")>>,
          <<Alt({"want", "need"}), Ws, Alt({"a", "an", "some"}), Ws,
            Alt({"book", "novel"})>>,
          <<Alt({"book"}), Opt("s"), Ws, Alt({"about", "on", "related to"})>> >>,
       \* Recommendation
       << <<Alt({"recommend", "suggest"}), Ws, Alt({"book", "something"})>>,
          <<Alt({"similar", "like"}), Ws>>,
          <<Alt({"based on"})>>,
          <<Alt({"what should I read"})>>,
          <<Alt({"good book"}), Opt("s"), Ws, Alt({"for", "about"})>> >>,
       \* Comparison
       << <<Alt({"compare", "comparison"}), Ws>>,
          <<Alt({"cheaper", "better", "best"}), Ws, Alt({"store", "price"})>>,
          <<Alt({"which", "what"}), Ws, Alt({"store", "bookstore"}), Ws,
            Alt({"is", "has"})>>,
          <<Alt({"versus", "vs"}), Opt("."), Ws>>,
          <<Alt({"difference between"})>> >>,
       \* Analytics
       << <<Alt({"most", "least"}), Ws, Alt({"popular", "expensive", "rated"})>>,
          <<Alt({"average", "mean"}), Ws, Alt({"price", "rating"})>>,
          <<Alt({"how many", "total", "count"})>>,
          <<Alt({"statistics"}), Ws, Alt({"about", "on", "for"})>>,
          <<Alt({"top", "best"}), Ws, Digits>> >>,
       \* Filter
       << <<Alt({"under", "below", "less than"}), Ws, Dollar, Digits>>,
          <<Alt({"over", "above", "more than"}), Ws, Dollar, Digits>>,
          <<Alt({"between"}), Ws, Dollar, Digits, Ws, Alt({"and"}), Ws, Dollar,
            Digits>>,
          <<Alt({"only", "just"}), Ws, Alt({"available", "in stock"})>>,
          <<Alt({"rated"}), Ws, Alt({"above", "below", "over"}), Ws, Digit>> >>,
       \* Information
       << <<Alt({"tell me about"})>>,
          <<Alt({"information", "details"}), Ws, Alt({"about", "on"})>>,
          <<Alt({"describe", "explain"})>>,
          <<Alt({"what is"}), Ws>> >> >>

\* the position of an intent in QueryIntent
IntentIndex(intent) == CHOOSE k \in 1..Len(QueryIntent) : QueryIntent[k] = intent

\* self.intent_patterns[intent]['keywords']
IntentKeywords(intent) == IntentKeywordTable[IntentIndex(intent)]

\* self.intent_patterns[intent]['patterns']
IntentPatterns(intent) == IntentPatternTable[IntentIndex(intent)]

\* score weights and threshold, in tenths
KeywordWeight == 3
PatternWeight == 5
ScoreCap == 10
UnknownThreshold == 3

Min(a, b) == IF a <= b THEN a ELSE b

\* the score without the cap
Uncapped(score) == score

\* min(score, 1.0)
Capped(score) == Min(score, ScoreCap)

\* the score classify computes for one intent
IntentScore(intent, query_lower) ==
    LET keyword_matches ==
            Cardinality({kw \in IntentKeywords(intent) : Contains(query_lower, kw)})
        patterns == IntentPatterns(intent)
        pattern_matches ==
            Cardinality({k \in 1..Len(patterns) : Search(patterns[k], query_lower)})
    IN  Capped(keyword_matches * KeywordWeight + pattern_matches * PatternWeight)

\* intent_scores: the score of each intent, in the order of QueryIntent (the
\* dict is filled in that order; UNKNOWN keeps its initial 0.0)
IntentScores(query) ==
    LET query_lower == Strip(Lower(query))
    IN  <<IntentScore("search", query_lower),
          IntentScore("recommendation", query_lower),
          IntentScore("comparison", query_lower),
          IntentScore("analytics", query_lower),
          IntentScore("filter", query_lower),
          IntentScore("information", query_lower),
          0>>

\* the last of the largest scores
BestIntentLast(scores) ==
    CHOOSE k \in 1..Len(scores) :
        /\ \A j \in 1..Len(scores) : scores[j] <= scores[k]
        /\ \A j \in (k + 1)..Len(scores) : scores[j] < scores[k]

\* max(intent_scores.items(), key=score): the first of the largest, in dict order
BestIntent(scores) ==
    CHOOSE k \in 1..Len(scores) :
        /\ \A j \in 1..Len(scores) : scores[j] <= scores[k]
        /\ \A j \in 1..(k - 1) : scores[j] < scores[k]

\* classify with `<=` in the threshold test
ClassifiedInclusive(intent_scores, best) ==
    IF intent_scores[best] <= UnknownThreshold
    THEN [intent |-> UNKNOWN, confidence |-> intent_scores[best]]
    ELSE [intent |-> QueryIntent[best], confidence |-> intent_scores[best]]

\* the intent and the confidence classify returns, given the scores and the
\* position of the best of them
Classified(intent_scores, best) ==
    IF intent_scores[best] < UnknownThreshold
    THEN [intent |-> UNKNOWN, confidence |-> intent_scores[best]]
    ELSE [intent |-> QueryIntent[best], confidence |-> intent_scores[best]]

BestOf(intent_scores) == Classified(intent_scores, BestIntent(intent_scores))

\* IntentClassifier.classify
classify(query) == BestOf(IntentScores(query))

(***************************************************************************)
(* Values.  An Optional is a sequence of at most one element; a dict is a  *)
(* function on its keys.                                                   *)
(***************************************************************************)
None == <<>>
Some(x) == <<x>>

EmptyDict == <<>>
Put(d, k, v) == [x \in (DOMAIN d) \cup {k} |-> IF x = k THEN v ELSE d[x]]

\* `if cond: d[k] = v`
PutIf(cond, d, k, v) == IF cond THEN Put(d, k, v) ELSE d

\* x if x else None, for a dict x
DictOrNone(d) == IF DOMAIN d = {} THEN None ELSE Some(d)

(***************************************************************************)
(* Floating point.  A Python float is an IEEE 754 double: 53 significant   *)
(* bits, every operation rounded to the nearest double, ties to the even   *)
(* one.  A float is modelled by [m, k], the number m * 2^(-k), with m a    *)
(* natural number of up to 53 bits written in limbs of 15 bits, the least  *)
(* significant first.  TheOnly({e(M) : M \in {N}}) is e(N) with N          *)
(* evaluated once.                                                         *)
(***************************************************************************)
LimbBase == 2^15
Limbs == 2 * 3

TheOnly(S) == CHOOSE r \in S : TRUE

\* the natural number n < 2^31 in limbs
BigOf(n) ==
    [i \in 1..Limbs |->
        CASE i = 1 -> n % LimbBase
          [] i = 2 -> (n \div LimbBase) % LimbBase
          [] i = 3 -> n \div (LimbBase * LimbBase)
          [] OTHER -> 0]

BigZero == BigOf(0)

\* 2^bits in limbs
BigPow2(bits) ==
    [i \in 1..Limbs |-> IF i = bits \div 15 + 1 THEN 2^(bits % 15) ELSE 0]

RECURSIVE MulCarry(_, _, _)
\* the carry into limb i of N * c, for c <= 2^15
MulCarry(N, c, i) ==
    IF i = 1 THEN 0 ELSE (N[i - 1] * c + MulCarry(N, c, i - 1)) \div LimbBase

\* N * c, for c <= 2^15
BigTimes(N, c) ==
    TheOnly({[i \in 1..Limbs |-> (M[i] * c + MulCarry(M, c, i)) % LimbBase] :
                M \in {N}})

RECURSIVE AddCarry(_, _, _)
\* the carry into limb i of N + M
AddCarry(N, M, i) ==
    IF i = 1 THEN 0 ELSE (N[i - 1] + M[i - 1] + AddCarry(N, M, i - 1)) \div LimbBase

BigPlus(N, M) ==
    TheOnly({[i \in 1..Limbs |-> (A[i] + B[i] + AddCarry(A, B, i)) % LimbBase] :
                A \in {N}, B \in {M}})

RECURSIVE RemAbove(_, _, _)
\* the remainder of the limbs above limb i of N in the division by d < 2^15
RemAbove(N, d, i) ==
    IF i = Limbs THEN 0 ELSE (RemAbove(N, d, i + 1) * LimbBase + N[i + 1]) % d

BigDiv(N, d) ==
    TheOnly({[i \in 1..Limbs |-> (RemAbove(M, d, i) * LimbBase + M[i]) \div d] :
                M \in {N}})

BigMod(N, d) == TheOnly({(RemAbove(M, d, 1) * LimbBase + M[1]) % d : M \in {N}})

BigLess(N, M) ==
    \E A \in {N}, B \in {M} :
        \E i \in 1..Limbs : A[i] < B[i] /\ \A j \in (i + 1)..Limbs : A[j] = B[j]

\* the number of bits of the natural number n < 2^15, and of N
BitsOf(n) == IF n = 0 THEN 0 ELSE CHOOSE b \in 1..15 : 2^(b - 1) <= n /\ n < 2^b
TopLimb(N) == CHOOSE i \in 1..Limbs : N[i] # 0 /\ \A j \in (i + 1)..Limbs : N[j] = 0
BigBits(N) == TheOnly({15 * (TopLimb(M) - 1) + BitsOf(M[TopLimb(M)]) : M \in {N}})

\* N * 2^bits, for bits < 60
BigShift(N, bits) ==
    BigTimes(BigTimes(BigTimes(BigTimes(N, 2^(IF bits > 45 THEN 15 ELSE 0)),
                               2^(IF bits > 30 THEN 15 ELSE 0)),
                      2^(IF bits > 15 THEN 15 ELSE 0)),
             2^(IF bits > 45 THEN bits - 45 ELSE IF bits > 30 THEN bits - 30
                ELSE IF bits > 15 THEN bits - 15 ELSE bits))

\* N / d rounded to the nearest natural number, a tie to the even one
RoundedQuotient(N, d) ==
    IF \/ 2 * BigMod(N, d) > d
       \/ 2 * BigMod(N, d) = d /\ BigDiv(N, d)[1] % 2 = 1
    THEN BigPlus(BigDiv(N, d), BigOf(1))
    ELSE BigDiv(N, d)

\* (N * 2^s) / d, that is (N / d) * 2^s with its 53 bits before the point,
\* rounded; a negative s goes to the divisor
RoundedAt(N, d, s) ==
    IF s >= 0 THEN RoundedQuotient(BigShift(N, s), d)
    ELSE RoundedQuotient(N, d * 2^(-s))

\* whether 2^52 <= (N / d) * 2^s < 2^53
FitsAt(N, d, s) ==
    IF s >= 0
    THEN /\ ~BigLess(BigShift(N, s), BigTimes(BigPow2(52), d))
         /\ BigLess(BigShift(N, s), BigTimes(BigPow2(53), d))
    ELSE /\ ~BigLess(N, BigTimes(BigPow2(52), d * 2^(-s)))
         /\ BigLess(N, BigTimes(BigPow2(53), d * 2^(-s)))

\* the shift that brings N / d into [2^52, 2^53)
ShiftFor(N, d) ==
    CHOOSE s \in (52 + BitsOf(d) - BigBits(N))..(54 + BitsOf(d) - BigBits(N)) :
        FitsAt(N, d, s)

\* the double nearest to (N / d) * 2^(-k), for N > 0 and d < 2^12
Rounded(N, d, k) ==
    TheOnly({[m |-> RoundedAt(M, d, s), k |-> k + s] :
                M \in {N}, s \in {ShiftFor(N, d)}})

FloatZero == [m |-> BigZero, k |-> 0]

\* the double nearest to n / scale: what float('7.99') is of 799 / 100
FloatOf(n, scale) == IF n = 0 THEN FloatZero ELSE Rounded(BigOf(n), scale, 0)

MaxOf(a, b) == IF a >= b THEN a ELSE b

\* the mantissa of x for the exponent k >= x.k
Aligned(x, k) == BigShift(x.m, k - x.k)

\* a + b for floats a, b other than 0
PlusRounded(a, b, k) == Rounded(BigPlus(Aligned(a, k), Aligned(b, k)), 1, k)

\* x + y
FloatPlus(x, y) ==
    TheOnly({IF a.m = BigZero THEN b
             ELSE IF b.m = BigZero THEN a
             ELSE PlusRounded(a, b, MaxOf(a.k, b.k)) : a \in {x}, b \in {y}})

\* x / n for an integer n >= 1
FloatOver(x, n) ==
    TheOnly({IF a.m = BigZero THEN FloatZero ELSE Rounded(a.m, n, a.k) : a \in {x}})

\* x < y and x <= y
FloatLess(x, y) ==
    \E a \in {x}, b \in {y} :
        BigLess(Aligned(a, MaxOf(a.k, b.k)), Aligned(b, MaxOf(a.k, b.k)))

FloatLeq(x, y) == ~FloatLess(y, x)

RECURSIVE FloatSum(_, _, _)
\* sum(numbers), added from the left: the sum of the first n numbers, each
\* the double nearest to numbers[i] / scale
FloatSum(numbers, scale, n) ==
    IF n = 0 THEN FloatZero
    ELSE FloatPlus(FloatSum(numbers, scale, n - 1), FloatOf(numbers[n], scale))

(***************************************************************************)
(* EntityExtractor (entity_extractor.py).                                  *)
(***************************************************************************)
\* the keys of self.genre_keywords, in insertion order
GenreNames ==
    <<"science fiction", "fantasy", "mystery", "romance", "horror", "biography",
      "history", "self-help", "children", "young adult">>

\* self.genre_keywords: the keywords of each genre, in the order of GenreNames
GenreKeywordLists ==
    << {"sci-fi", "scifi", "science fiction", "sf", "space", "futuristic"},
       {"fantasy", "magic", "wizard", "dragon", "medieval", "quest"},
       {"mystery", "detective", "crime", "thriller", "investigation", "murder"},
       {"romance", "love", "romantic", "relationship"},
       {"horror", "scary", "terror", "haunted", "ghost"},
       {"biography", "autobiography", "memoir", "life story"},
       {"history", "historical", "war", "ancient"},
       {"self-help", "self help", "personal development", "motivation"},
       {"children", "kids", "young readers", "picture book"},
       {"ya", "young adult", "teen", "teenage"} >>

\* found_genres: each genre one of whose keywords occurs in the query
FoundGenres(query) ==
    {GenreNames[i] : i \in {i \in 1..Len(GenreNames) :
        \E keyword \in GenreKeywordLists[i] : Contains(query, keyword)}}

RECURSIVE Keep(_, _)
\* the elements of the sequence that are in S, in the sequence's order
Keep(seq, S) ==
    IF seq = <<>> THEN <<>>
    ELSE (IF Head(seq) \in S THEN <<Head(seq)>> ELSE <<>>) \o Keep(Tail(seq), S)

\* list(set(found_genres)): the order is that of the interpreter's string
\* hashes, which `order` stands for
ListOfSet(S, order) == Keep(order, S)

\* EntityExtractor._extract_genres
extract_genres(query, order) == ListOfSet(FoundGenres(query), order)

UnderPattern == <<Alt({"under", "below", "less than"}), Ws, Dollar, Money>>
OverPattern == <<Alt({"over", "above", "more than"}), Ws, Dollar, Money>>
BetweenPre == <<Alt({"between"}), Ws, Dollar>>
BetweenMid == <<Ws, Alt({"and"}), Ws, Dollar>>

BetweenPattern == BetweenPre \o <<Money>> \o BetweenMid \o <<Money>>

\* EntityExtractor._extract_price_range: the three patterns are tried in turn,
\* each writing its side(s) of the range
extract_price_range(query) ==
    DictOrNone(
        PutIf(Search(BetweenPattern, query),
            PutIf(Search(BetweenPattern, query),
                PutIf(Search(OverPattern, query),
                    PutIf(Search(UnderPattern, query),
                        EmptyDict,
                        "max", Cents(query, LastGroup(UnderPattern, query))),
                    "min", Cents(query, LastGroup(OverPattern, query))),
                "min", Cents(query, MidGroup(BetweenPre, Money,
                                             BetweenMid \o <<Money>>, query))),
            "max", Cents(query, LastGroup(BetweenPattern, query))))

RatedAbove == <<Alt({"rate"}), Opt("d"), Ws, Alt({"above", "over"}), Ws, Rating>>
RatedBelow == <<Alt({"rate"}), Opt("d"), Ws, Alt({"below", "under"}), Ws, Rating>>

HighRating == 40

\* the rating range in which "highly rated" yields to a "rated above N"
rating_range_keeping_min(query) ==
    DictOrNone(
        PutIf((Contains(query, "highly rated") \/ Contains(query, "high rating"))
                /\ ~Search(RatedAbove, query),
            PutIf(Search(RatedBelow, query),
                PutIf(Search(RatedAbove, query),
                    EmptyDict,
                    "min", Tenths(query, LastGroup(RatedAbove, query))),
                "max", Tenths(query, LastGroup(RatedBelow, query))),
            "min", HighRating))

\* EntityExtractor._extract_rating_range
extract_rating_range(query) ==
    DictOrNone(
        PutIf(Contains(query, "highly rated") \/ Contains(query, "high rating"),
            PutIf(Search(RatedBelow, query),
                PutIf(Search(RatedAbove, query),
                    EmptyDict,
                    "min", Tenths(query, LastGroup(RatedAbove, query))),
                "max", Tenths(query, LastGroup(RatedBelow, query))),
            "min", HighRating))

\* self.store_patterns
StorePatterns ==
    << <<Alt({"store", "bookstore"}), Ws, Alt({"A", "B", "a", "b"})>>,
       <<Alt({"bookstore", "shop"}), Ws, Alt({"A", "B", "a", "b"})>> >>

RECURSIVE StoresFrom(_, _)
StoresFrom(query, k) ==
    IF k > Len(StorePatterns) THEN <<>>
    ELSE (IF Search(StorePatterns[k], query)
          THEN LET g == LastGroup(StorePatterns[k], query)
               IN  <<"store_" \o Lower(SubSeq(query, g.from, g.to - 1))>>
          ELSE <<>>) \o StoresFrom(query, k + 1)

\* EntityExtractor._extract_stores
extract_stores(query) ==
    IF Contains(query, "both stores") \/ Contains(query, "all stores")
    THEN <<"store_a", "store_b">>
    ELSE StoresFrom(query, 1)

\* format_keywords, in insertion order, with format_type.capitalize()
FormatTypes == <<"Ebook", "Audiobook", "Hardcover", "Paperback">>

FormatKeywords(f) ==
    CASE f = "Ebook" -> {"ebook", "e-book", "digital", "kindle"}
      [] f = "Audiobook" -> {"audiobook", "audio book", "audible"}
      [] f = "Hardcover" -> {"hardcover", "hardback"}
      [] f = "Paperback" -> {"paperback", "softcover"}

\* EntityExtractor._extract_format
extract_format(query) ==
    LET found == {k \in 1..Len(FormatTypes) :
                    \E keyword \in FormatKeywords(FormatTypes[k]) :
                        Contains(query, keyword)}
    IN  IF found = {} THEN None ELSE Some(FormatTypes[Least(found)])

\* EntityExtractor._extract_availability
extract_availability(query) ==
    IF \E phrase \in {"in stock", "available", "available now"} :
            Contains(query, phrase)
    THEN Some(TRUE)
    ELSE IF \E phrase \in {"out of stock", "unavailable"} : Contains(query, phrase)
    THEN Some(FALSE)
    ELSE None

\* the sort preference with the rules tried from the last to the first
sort_preference_last_rule(query) ==
    IF Contains(query, "oldest")
    THEN Some("year_asc")
    ELSE IF Contains(query, "newest") \/ Contains(query, "most recent")
    THEN Some("year_desc")
    ELSE IF Contains(query, "highest rated") \/ Contains(query, "best rated")
    THEN Some("rating_desc")
    ELSE IF Contains(query, "most expensive") \/ Contains(query, "highest price")
    THEN Some("price_desc")
    ELSE IF Contains(query, "cheapest") \/ Contains(query, "lowest price")
    THEN Some("price_asc")
    ELSE None

\* EntityExtractor._extract_sort_preference
extract_sort_preference(query) ==
    IF Contains(query, "cheapest") \/ Contains(query, "lowest price")
    THEN Some("price_asc")
    ELSE IF Contains(query, "most expensive") \/ Contains(query, "highest price")
    THEN Some("price_desc")
    ELSE IF Contains(query, "highest rated") \/ Contains(query, "best rated")
    THEN Some("rating_desc")
    ELSE IF Contains(query, "newest") \/ Contains(query, "most recent")
    THEN Some("year_desc")
    ELSE IF Contains(query, "oldest")
    THEN Some("year_asc")
    ELSE None

TopN == <<Alt({"top"}), Ws, Digits>>
FirstN == <<Alt({"first"}), Ws, Digits>>

NBooks == <<Ws, Alt({"book"})>>

\* int() of a captured \d+
IntOf(query, g) == ParseInt(query, g.from, g.to)

\* EntityExtractor._extract_limit
extract_limit(query) ==
    IF Search(TopN, query)
    THEN Some(IntOf(query, LastGroup(TopN, query)))
    ELSE IF Search(<<Digits>> \o NBooks, query)
    THEN Some(IntOf(query, MidGroup(<<>>, Digits, NBooks, query)))
    ELSE IF Search(FirstN, query)
    THEN Some(IntOf(query, LastGroup(FirstN, query)))
    ELSE None

\* the entities of the lower-cased, stripped query
Entities(query_lower, order) ==
    [genres |-> extract_genres(query_lower, order),
     price_range |-> extract_price_range(query_lower),
     rating_range |-> extract_rating_range(query_lower),
     authors |-> <<>>,
     stores |-> extract_stores(query_lower),
     format |-> extract_format(query_lower),
     availability |-> extract_availability(query_lower),
     sort_by |-> extract_sort_preference(query_lower),
     limit |-> extract_limit(query_lower)]

\* EntityExtractor.extract
extract(query, order) == Entities(Strip(Lower(query)), order)

(***************************************************************************)
(* QueryProcessor (processor.py).                                          *)
(***************************************************************************)
StopWords ==
    {"a", "an", "the", "and", "or", "but", "in", "on", "at", "to", "for",
     "of", "with", "by", "from", "about", "as", "is", "are", "was", "were",
     "be", "been", "being", "have", "has", "had", "do", "does", "did",
     "will", "would", "should", "could", "may", "might", "can", "i", "you",
     "he", "she", "it", "we", "they", "me", "him", "her", "us", "them",
     "find", "search", "looking", "show", "get", "want", "need"}

MinKeywordLen == 3

RECURSIVE KeepKeywords(_)
KeepKeywords(words) ==
    IF words = <<>> THEN <<>>
    ELSE (IF Head(words) \notin StopWords /\ Len(Head(words)) >= MinKeywordLen
          THEN <<Head(words)>> ELSE <<>>) \o KeepKeywords(Tail(words))

\* QueryProcessor._extract_keywords
extract_keywords(query) == KeepKeywords(WordsFrom(Lower(query), 1))

\* A value of the filter dictionary: a bare value (an equality) or a dictionary
\* of operators.
Bare(v) == [kind |-> "value", v |-> v]
Ops(d) == [kind |-> "ops", ops |-> d]

\* the two sides of a range as strict comparisons
RangeOpsStrict(range) ==
    PutIf("max" \in DOMAIN range,
        PutIf("min" \in DOMAIN range, EmptyDict, "$gt", range["min"]),
        "$lt", range["max"])

\* the two sides of a price_range / rating_range as $gte / $lte
RangeOps(range) ==
    PutIf("max" \in DOMAIN range,
        PutIf("min" \in DOMAIN range, EmptyDict, "$gte", range["min"]),
        "$lte", range["max"])

\* every list as $in
AlwaysIn(list) == Ops(Put(EmptyDict, "$in", list))

\* one element as an equality, several as $in
OneOrIn(list) ==
    IF Len(list) = 1 THEN Bare(list[1]) ELSE Ops(Put(EmptyDict, "$in", list))

\* the operators of an Optional range: none when the range is None
OptRangeOps(range) == IF range = None THEN EmptyDict ELSE RangeOps(range[1])

\* `if ops: filters[key] = ops`
PutOps(d, key, ops) == PutIf(DOMAIN ops # {}, d, key, Ops(ops))

\* a _build_filters that tests the availability for truth
build_filters_truthy(entities) ==
    PutIf(entities.genres # <<>>,
        PutIf(entities.availability = Some(TRUE),
            PutIf(entities.format # None /\ entities.format[1] # "",
                PutIf(entities.stores # <<>>,
                    PutOps(
                        PutOps(EmptyDict, "price",
                               OptRangeOps(entities.price_range)),
                        "rating", OptRangeOps(entities.rating_range)),
                    "store_id", OneOrIn(entities.stores)),
                "format_type", Bare(entities.format[1])),
            "availability", Bare(entities.availability[1])),
        "genre", OneOrIn(entities.genres))

\* QueryProcessor._build_filters: the keys are written in this order
build_filters(entities) ==
    PutIf(entities.genres # <<>>,
        PutIf(entities.availability # None,
            PutIf(entities.format # None /\ entities.format[1] # "",
                PutIf(entities.stores # <<>>,
                    PutOps(
                        PutOps(EmptyDict, "price",
                               OptRangeOps(entities.price_range)),
                        "rating", OptRangeOps(entities.rating_range)),
                    "store_id", OneOrIn(entities.stores)),
                "format_type", Bare(entities.format[1])),
            "availability", Bare(entities.availability[1])),
        "genre", OneOrIn(entities.genres))

\* QueryProcessor._extract_metadata
extract_metadata(query, intent, entities) ==
    [query_length |-> Len(query),
     word_count |-> WordCount(query),
     has_price_constraint |-> entities.price_range # None,
     has_rating_constraint |-> entities.rating_range # None,
     has_store_preference |-> Len(entities.stores) > 0,
     genre_count |-> Len(entities.genres),
     sort_preference |-> entities.sort_by,
     result_limit |-> entities.limit,
     requires_comparison |-> intent = "comparison",
     requires_aggregation |-> intent = "analytics"]

\* the ParsedQuery process builds from the classification and the entities
ParsedQuery(query, classified, entities) ==
    [original_query |-> query,
     intent |-> classified.intent,
     confidence |-> classified.confidence,
     entities |-> entities,
     keywords |-> extract_keywords(query),
     filters |-> build_filters(entities),
     metadata |-> extract_metadata(query, classified.intent, entities)]

\* QueryProcessor.process, in an interpreter whose set order is `order`
process(query, order) ==
    ParsedQuery(query, classify(query), extract(query, order))

(***************************************************************************)
(* Inputs: query strings, joined from phrases.                             *)
(***************************************************************************)
\* the phrases queries are made of; the first NumPhrases are used
PhraseList ==
    <<"Find books", "about", "recommend", "tell me about", "under $20",
      "rated above 4", "store a", "ebook", "in stock", "fantasy", "mystery",
      "top 3", "2 books", "bookstore b", "Compare", "out of stock">>

\* a whole query of the kind the demos of the repository run
ScenarioQuery == "Find science fiction books under $20"

\* the queries of at most two of the first NumPhrases phrases, separated by
\* one space, and the scenario query
Queries ==
    {"", ScenarioQuery}
         \cup {PhraseList[k] : k \in 1..Min(NumPhrases, Len(PhraseList))}
         \cup {PhraseList[k] \o " " \o PhraseList[m] :
                    k, m \in 1..Min(NumPhrases, Len(PhraseList))}

\* the constraint phrases: stores, genres, availability, rating, sort
\* preference, price and format; the first NumConstraints are used
ConstraintPhrases ==
    <<"store a", "bookstore b", "shop a", "fantasy", "magic", "mystery",
      "in stock", "out of stock", "unavailable", "highly rated",
      "rated above 3", "rated below 3", "cheapest", "most expensive",
      "best rated", "newest", "oldest", "under $20", "ebook", "available">>

\* the queries of at most two of the first NumConstraints constraint phrases
ConstraintQueries ==
    {""} \cup {ConstraintPhrases[k] :
                    k \in 1..Min(NumConstraints, Len(ConstraintPhrases))}
         \cup {ConstraintPhrases[k] \o " " \o ConstraintPhrases[m] :
                    k, m \in 1..Min(NumConstraints, Len(ConstraintPhrases))}

RECURSIVE Decimal(_)
\* the decimal digits of a number, as the user writes it
Decimal(n) ==
    IF n < 10 THEN CharAt(DigitChars, n + 1)
    ELSE Decimal(n \div 10) \o CharAt(DigitChars, (n % 10) + 1)

\* the phrases that ask for a number of results
LimitPhrases ==
    UNION {{"top " \o Decimal(n), Decimal(n) \o " books", "first " \o Decimal(n)} :
                n \in 0..MaxLimit}

\* the phrases that ask for an order of the results
SortPhrases == {"cheapest", "most expensive", "best rated", "newest", "oldest"}

\* one phrase after the other, either of which can be missing
Phrase(first, second) ==
    IF first = "" THEN second
    ELSE IF second = "" THEN first
    ELSE first \o " " \o second

\* the search queries: a limit phrase, a sort phrase, both or none
SearchQueries ==
    {Phrase(l, o) : l \in LimitPhrases \cup {""}, o \in SortPhrases \cup {""}}

(***************************************************************************)
(* The interpreter.  Python randomises the hash of a string per process    *)
(* (PYTHONHASHSEED), and a set of strings iterates in the order of the     *)
(* hashes.  An interpreter is modelled by the order it gives the genre     *)
(* names; the model distinguishes MaxInterpreters such orders.             *)
(***************************************************************************)
RECURSIVE Reverse(_)
Reverse(seq) == IF seq = <<>> THEN <<>> ELSE Reverse(Tail(seq)) \o <<Head(seq)>>

Rotate(seq, k) ==
    [i \in 1..Len(seq) |-> seq[((i - 1 + k) % Len(seq)) + 1]]

\* the set order under the k-th hash seed
SeedOrder(k) ==
    IF k % 2 = 0 THEN Rotate(GenreNames, k \div 2)
    ELSE Reverse(Rotate(GenreNames, k \div 2))

HashOrders == {SeedOrder(k) : k \in 0..(MaxInterpreters - 1)}

\* what QueryProcessor.process(userQuery) returns in the running interpreter.
\* process is a function of the query and the interpreter's set order; the
\* state keeps its value for the query of the run (parsedNow), computed when
\* the interpreter starts.
Processed == parsedNow

\* a new interpreter process starts: the program is run again
StartInterpreter ==
    /\ interpreters < MaxInterpreters
    /\ interpreters' = interpreters + 1
    /\ \E order \in HashOrders \ {hashOrder} :
        /\ hashOrder' = order
        /\ parsedNow' = process(userQuery, order)
    /\ UNCHANGED <<userQuery, parsed, handlers, nreg, lastRegistered,
                   outcome, invoked, indexHits, indexError, strategy,
                   searchCalls, result, tasks>>

\* a call of QueryProcessor.process(userQuery); its return value is recorded
Process ==
    /\ Len(parsed) < MaxCalls
    /\ parsed' = Append(parsed, Processed)
    /\ UNCHANGED <<userQuery, hashOrder, parsedNow, interpreters, handlers,
                   nreg, lastRegistered, outcome, invoked, indexHits,
                   indexError, strategy, searchCalls, result, tasks>>

NoOutcome == [kind |-> "none"]

\* the parts of the state a specification leaves alone
RouterIdle ==
    /\ handlers = EmptyDict
    /\ nreg = 0
    /\ outcome = NoOutcome
    /\ invoked = <<>>
    /\ lastRegistered = EmptyDict
    /\ tasks = <<>>

RetrieverIdle ==
    /\ indexHits = <<>>
    /\ indexError = None
    /\ strategy = None
    /\ searchCalls = <<>>
    /\ result = None

\* an interpreter has started and holds one of the queries
StartedOn(queries) ==
    /\ userQuery \in queries
    /\ hashOrder \in HashOrders
    /\ parsedNow = process(userQuery, hashOrder)
    /\ interpreters = 1
    /\ parsed = <<>>

Started == StartedOn(Queries)

InitProcess == Started /\ RouterIdle /\ RetrieverIdle

NextProcess == Process \/ StartInterpreter

\* the query processor, called on one query, in one or more interpreters
SpecProcess == InitProcess /\ [][NextProcess]_vars

InitConstraints == StartedOn(ConstraintQueries) /\ RouterIdle /\ RetrieverIdle

\* the query processor, called on a query made of constraint phrases
SpecConstraints == InitConstraints /\ [][NextProcess]_vars

(***************************************************************************)
(* QueryRouter (router.py).  A handler is a callable supplied by the       *)
(* caller: it returns a value or raises.                                   *)
(***************************************************************************)
Handlers == {"handler_a", "handler_b", "failing", "interrupted"}

\* what a call handler(parsed_query) does
RunHandler(h, pq) ==
    CASE h = "handler_a" ->
            [kind |-> "return", value |-> <<"a", pq.intent, pq.keywords>>]
      [] h = "handler_b" ->
            [kind |-> "return", value |-> <<"b", pq.intent, pq.keywords>>]
      [] h = "failing" ->
            [kind |-> "raise", class |-> "RuntimeError",
             message |-> "search failed: " \o pq.original_query]
      [] h = "interrupted" ->
            [kind |-> "raise", class |-> "KeyboardInterrupt", message |-> ""]

\* the classes `except Exception` catches; KeyboardInterrupt derives from
\* BaseException only
ExceptionClasses == {"RuntimeError", "ConnectionError", "TypeError"}

\* dict.get(key): None when the key is absent
Get(d, k) == IF k \in DOMAIN d THEN Some(d[k]) ELSE None

\* f'{parsed_query.intent}' for a member of the str-mixin Enum: the value up to
\* Python 3.10, ClassName.MEMBER from Python 3.11 on
IntentFormats(intent) == {intent, "QueryIntent." \o IntentName[intent]}

\* a registration that keeps the handler an intent already has
register_handler_once(hs, intent, handler) ==
    IF intent \in DOMAIN hs THEN hs ELSE Put(hs, intent, handler)

\* QueryRouter.register_handler
register_handler(hs, intent, handler) == Put(hs, intent, handler)

\* what a call of route produces: an envelope it returns or an exception
\* that leaves it
Returned(envelope) == [kind |-> "returned", envelope |-> envelope]
Propagated(class) == [kind |-> "raised", class |-> class]

\* the no-handler envelope with an error text that leaves the intent out
NoHandlerEnvelopeAnonymous(parsed_query, shown) ==
    [success |-> FALSE,
     error |-> "No handler registered",
     parsed_query |-> parsed_query]

\* the envelope for an intent without handler
NoHandlerEnvelope(parsed_query, shown) ==
    [success |-> FALSE,
     error |-> "No handler registered for intent: " \o shown,
     parsed_query |-> parsed_query]

\* the envelope for the value the handler returned
SuccessEnvelope(parsed_query, value) ==
    [success |-> TRUE, parsed_query |-> parsed_query, result |-> value]

\* the envelope for the exception e the handler raised: error is str(e)
FailureEnvelope(parsed_query, message) ==
    [success |-> FALSE, error |-> message, parsed_query |-> parsed_query]

\* route without the try statement: nothing is caught
CaughtNothing(class) == FALSE

\* `except Exception`: the classes the handler of route catches
Caught(class) == class \in ExceptionClasses

\* the try statement of route around the handler's run
Guarded(run, parsed_query) ==
    IF run.kind = "return"
    THEN Returned(SuccessEnvelope(parsed_query, run.value))
    ELSE IF Caught(run.class)
    THEN Returned(FailureEnvelope(parsed_query, run.message))
    ELSE Propagated(run.class)

\* a route that calls the handler a second time (a retry)
InvocationsRetried(handler, parsed_query) ==
    <<[handler |-> handler, argument |-> parsed_query],
      [handler |-> handler, argument |-> parsed_query]>>

\* the calls route makes of the handler it found
Invocations(handler, parsed_query) ==
    <<[handler |-> handler, argument |-> parsed_query]>>

\* route from the lookup on: handler is self.handlers.get(parsed_query.intent)
Dispatch(handler, parsed_query, shown) ==
    IF handler = None
    THEN [outcome |-> Returned(NoHandlerEnvelope(parsed_query, shown)),
          invoked |-> <<>>]
    ELSE [outcome |-> Guarded(RunHandler(handler[1], parsed_query), parsed_query),
          invoked |-> Invocations(handler[1], parsed_query)]

\* QueryRouter.route, after parsed_query = self.query_processor.process(query);
\* `shown` is the formatted intent.  Gives what the call produces and the
\* handler invocations it made.
route(hs, parsed_query, shown) ==
    Dispatch(Get(hs, parsed_query.intent), parsed_query, shown)

\* the record of the register_handler calls: per intent, the handler the
\* latest call for it gave
Latest(calls, intent, handler) ==
    [i \in DOMAIN calls \cup {intent} |-> IF i = intent THEN handler ELSE calls[i]]

\* a call of register_handler(intent, handler); what an earlier route call
\* produced is no longer observed
RegisterHandler ==
    /\ nreg < MaxRegistrations
    /\ nreg' = nreg + 1
    /\ \E intent \in Intents, h \in Handlers :
        /\ handlers' = register_handler(handlers, intent, h)
        /\ lastRegistered' = Latest(lastRegistered, intent, h)
    /\ outcome' = NoOutcome
    /\ invoked' = <<>>
    /\ UNCHANGED <<userQuery, hashOrder, parsedNow, interpreters, parsed,
                   indexHits, indexError, strategy, searchCalls,
                   result, tasks>>

\* a call of route(userQuery)
Route ==
    /\ \E shown \in IntentFormats(Processed.intent) :
        \E r \in {route(handlers, Processed, shown)} :
            /\ outcome' = r.outcome
            /\ invoked' = r.invoked
    /\ UNCHANGED <<userQuery, hashOrder, parsedNow, interpreters, parsed,
                   handlers, nreg, lastRegistered, indexHits,
                   indexError, strategy, searchCalls, result, tasks>>

\* the router runs in one interpreter, the first
InitRouter == Started /\ hashOrder = SeedOrder(0) /\ RouterIdle /\ RetrieverIdle

NextRouter == RegisterHandler \/ Route

\* a router: handlers are registered and the query is routed
SpecRouter == InitRouter /\ [][NextRouter]_vars

(***************************************************************************)
(* The search collaborator (vectorstore/indexer.py, vector_db.py) and the  *)
(* hits it returns.  A hit is {id, score, metadata, document}; the ids of  *)
(* the hits of one result are distinct, the scores do not increase along   *)
(* the ranking.                                                            *)
(***************************************************************************)
Book(title, author, genre, price, rating, store_id, store_name, year, format) ==
    [title |-> title, author |-> author, genre |-> genre, price |-> price,
     rating |-> rating, store_id |-> store_id, store_name |-> store_name,
     publication_year |-> year, format_type |-> format]

\* the dictionary without a key
Lacking(dict, key) == [k \in DOMAIN dict \ {key} |-> dict[k]]

\* the books of the index: ids and metadata.  b1 and b2 carry the same field
\* values; b4 has the rating 0, no publication year and a metadata without
\* the key format_type, b5 has no rating (embeddings.py writes the None of the
\* book into the metadata).  Prices are in cents: the three books of store_a
\* cost 7.99.
Catalog ==
    << [id |-> "b1", metadata |-> Book("Dune", "Ann", "Fantasy", 799, Some(45),
                                      "store_a", "Bookstore A", Some(1965),
                                      "Physical")],
       [id |-> "b2", metadata |-> Book("Dune", "Ann", "Fantasy", 799, Some(45),
                                      "store_a", "Bookstore A", Some(1965),
                                      "Physical")],
       [id |-> "b3", metadata |-> Book("Clues", "Bob", "Mystery", 799, Some(40),
                                      "store_a", "Bookstore A", Some(2001),
                                      "Ebook")],
       [id |-> "b4", metadata |-> Lacking(Book("Fog", "Ann", "Mystery", 1500,
                                              Some(0), "store_b",
                                              "Bookstore B", None, "Physical"),
                                         "format_type")],
       [id |-> "b5", metadata |-> Book("Crypt", "Cid", "Horror", 1200, None,
                                      "store_b", "Bookstore B", Some(1990),
                                      "Ebook")] >>

\* the similarity, in hundredths, of the hit at a rank: 1 - distance; two
\* neighbours in the ranking can be equally near
ScoreAt(rank) == 90 - 10 * (rank \div 2)

\* the formatted result of vector_db.search_similar_books for the book at a rank
Hit(book, rank) ==
    [id |-> book.id, score |-> ScoreAt(rank), metadata |-> book.metadata,
     document |-> book.metadata.title \o " by " \o book.metadata.author]

\* the sequences without repetition of at most n elements of S
RECURSIVE Arrangements(_, _)
Arrangements(S, n) ==
    IF n = 0 THEN {<<>>}
    ELSE {<<>>} \cup
         {<<x>> \o rest : x \in S, rest \in Arrangements(S, n - 1)}

NoRepeat(seq) == \A i, j \in 1..Len(seq) : seq[i] = seq[j] => i = j

RECURSIVE HitsFrom(_, _)
\* the hits for the books books[rank..], in this order
HitsFrom(books, rank) ==
    IF rank > Len(books) THEN <<>>
    ELSE <<Hit(Catalog[books[rank]], rank)>> \o HitsFrom(books, rank + 1)

\* the rankings the index can hold for a query: at most MaxHits different books
Rankings ==
    {HitsFrom(books, 1) :
        books \in {a \in Arrangements(1..Len(Catalog), MaxHits) : NoRepeat(a)}}

\* seq[:n]
Take(seq, n) == SubSeq(seq, 1, Min(n, Len(seq)))

\* a call indexer.search_books(query=..., n_results=..., filters=...)
SearchCall(query, n_results, filters) ==
    [query |-> query, n_results |-> n_results, filters |-> filters]

\* BookIndexer.search_books: the n_results best of the hits the index holds
\* for the call
search_books(hits, call) == Take(hits, call.n_results)

(***************************************************************************)
(* QueryRetriever (retriever.py).                                          *)
(***************************************************************************)
DefaultLimit == 10
ComparisonCandidates == 50
SampleSize == 3

RECURSIVE Join(_)
\* ' '.join(components)
Join(components) ==
    IF components = <<>> THEN ""
    ELSE IF Len(components) = 1 THEN components[1]
    ELSE components[1] \o " " \o Join(Tail(components))

RECURSIVE RemoveFrom(_, _, _)
\* text[i..] without the occurrences of word, found from left to right
RemoveFrom(text, word, i) ==
    IF i > Len(text) THEN ""
    ELSE IF HasAt(text, i, word) THEN RemoveFrom(text, word, i + Len(word))
    ELSE CharAt(text, i) \o RemoveFrom(text, word, i + 1)

\* the intent keywords _build_search_text removes, in its order
IntentWords == <<"find", "search", "looking for", "show me", "get", "want", "need">>

RECURSIVE RemoveEach(_, _, _)
\* for word in words[k..]: text = text.replace(word, '')
RemoveEach(text, words, k) ==
    IF k > Len(words) THEN text
    ELSE RemoveEach(RemoveFrom(text, words[k], 1), words, k + 1)

\* the text for a list of components, or the fallback when there is none
TextOf(components, fallback) ==
    IF components = <<>> THEN fallback ELSE Join(components)

\* QueryRetriever._build_search_text
build_search_text(parsed_query) ==
    TextOf(parsed_query.keywords \o parsed_query.entities.genres,
           Strip(RemoveEach(Lower(parsed_query.original_query), IntentWords, 1)))

\* the keywords _build_recommendation_text leaves out
TriggerWords == {"book", "books", "recommend", "suggest", "similar"}

RECURSIVE Without(_, _)
\* the elements of the sequence that are not in S, in the sequence's order
Without(seq, S) ==
    IF seq = <<>> THEN <<>>
    ELSE (IF Head(seq) \in S THEN <<>> ELSE <<Head(seq)>>) \o Without(Tail(seq), S)

\* QueryRetriever._build_recommendation_text
build_recommendation_text(parsed_query) ==
    TextOf(parsed_query.entities.genres \o Without(parsed_query.keywords, TriggerWords),
           "popular books")

\* x or fallback, for an Optional integer x: None and 0 are false
OrElse(x, fallback) == IF x = None \/ x = Some(0) THEN fallback ELSE x[1]

\* membership that compares the metadata only
InByMetadata(hit, list) == \E k \in 1..Len(list) : list[k].metadata = hit.metadata

\* `result in diversified`: an element equal to the hit, field for field
In(hit, list) == \E k \in 1..Len(list) : list[k] = hit

\* the test of the first loop with `and`
AdmitsBoth(hit, seen_authors, seen_genres) ==
    /\ hit.metadata.author \notin seen_authors
    /\ hit.metadata.genre \notin seen_genres

\* `author not in seen_authors or genre not in seen_genres`
Admits(hit, seen_authors, seen_genres) ==
    \/ hit.metadata.author \notin seen_authors
    \/ hit.metadata.genre \notin seen_genres

RECURSIVE FirstPass(_, _, _, _, _, _)
\* the first loop of _diversify_results, from results[k] on
FirstPass(results, limit, k, diversified, seen_authors, seen_genres) ==
    IF k > Len(results) THEN diversified
    ELSE IF Admits(results[k], seen_authors, seen_genres)
    THEN IF Len(diversified) + 1 >= limit
         THEN Append(diversified, results[k])
         ELSE FirstPass(results, limit, k + 1, Append(diversified, results[k]),
                        seen_authors \cup {results[k].metadata.author},
                        seen_genres \cup {results[k].metadata.genre})
    ELSE FirstPass(results, limit, k + 1, diversified, seen_authors, seen_genres)

RECURSIVE SecondPass(_, _, _, _)
\* the second loop of _diversify_results, from results[k] on
SecondPass(results, limit, k, diversified) ==
    IF k > Len(results) THEN diversified
    ELSE IF ~In(results[k], diversified)
    THEN IF Len(diversified) + 1 >= limit
         THEN Append(diversified, results[k])
         ELSE SecondPass(results, limit, k + 1, Append(diversified, results[k]))
    ELSE SecondPass(results, limit, k + 1, diversified)

\* a diversification without the second loop
FillNothing(results, limit, diversified) == diversified

\* `if len(diversified) < limit:` the second loop
Fill(results, limit, diversified) ==
    IF Len(diversified) < limit
    THEN SecondPass(results, limit, 1, diversified)
    ELSE diversified

\* QueryRetriever._diversify_results
diversify_results(results, limit) ==
    Take(Fill(results, limit, FirstPass(results, limit, 1, <<>>, {}, {})), limit)

\* the search call of retrieve_for_recommendation
RecommendationCall(parsed_query) ==
    SearchCall(build_recommendation_text(parsed_query),
               OrElse(parsed_query.entities.limit, DefaultLimit) * 2,
               parsed_query.filters)

\* QueryRetriever.retrieve_for_recommendation; hits: what the index holds
retrieve_for_recommendation(parsed_query, hits) ==
    diversify_results(search_books(hits, RecommendationCall(parsed_query)),
                      OrElse(parsed_query.entities.limit, DefaultLimit))

RECURSIVE Sum(_)
\* sum(numbers)
Sum(numbers) == IF numbers = <<>> THEN 0 ELSE Head(numbers) + Sum(Tail(numbers))

\* sum(numbers) / len(numbers), kept as its operands: the numbers sum() adds,
\* in their order, and the divisor
Mean(numbers) == [sum |-> numbers, count |-> Len(numbers)]

\* the float a mean is, for numbers counted in 1/scale (cents: 100, tenths
\* of a rating: 10)
FloatMean(mean, scale) ==
    FloatOver(FloatSum(mean.sum, scale, Len(mean.sum)), mean.count)

RECURSIVE PricesOf(_)
\* [b['metadata']['price'] for b in books]
PricesOf(books) ==
    IF books = <<>> THEN <<>>
    ELSE <<Head(books).metadata.price>> \o PricesOf(Tail(books))

\* `if b['metadata'].get('rating')`: neither None nor 0
Rated(book) == book.metadata.rating # None /\ book.metadata.rating # Some(0)

RECURSIVE RatingsOf(_)
\* [b['metadata'].get('rating', 0) for b in books if b['metadata'].get('rating')]
RatingsOf(books) ==
    IF books = <<>> THEN <<>>
    ELSE (IF Rated(Head(books)) THEN <<Head(books).metadata.rating[1]>> ELSE <<>>)
         \o RatingsOf(Tail(books))

\* sum(ratings) / len(ratings) if ratings else None
MeanOrNone(numbers) == IF numbers = <<>> THEN None ELSE Some(Mean(numbers))

\* the books of one store, in the order of the hits: store_data[store_id]
BooksOf(all_books, store_id) ==
    SelectSeq(all_books, LAMBDA b : b.metadata.store_id = store_id)

\* comparison['stores'][store_id] for the books of a store
StoreMetrics(books) ==
    [store_name |-> books[1].metadata.store_name,
     book_count |-> Len(books),
     avg_price |-> Mean(PricesOf(books)),
     min_price |-> Least(Elements(PricesOf(books))),
     max_price |-> Greatest(Elements(PricesOf(books))),
     avg_rating |-> MeanOrNone(RatingsOf(books)),
     sample_books |-> Take(books, SampleSize)]

\* the keys of store_data
StoreIds(all_books) == {all_books[k].metadata.store_id : k \in 1..Len(all_books)}

\* the comparison retrieve_for_comparison builds from the hits
Comparison(all_books) ==
    [stores |-> [store_id \in StoreIds(all_books) |->
                    StoreMetrics(BooksOf(all_books, store_id))],
     overall |-> [total_books |-> Len(all_books),
                  stores_compared |-> Cardinality(StoreIds(all_books))]]

\* a comparison search that passes the filters of the query on
ComparisonCallFiltered(parsed_query) ==
    SearchCall(build_search_text(parsed_query), ComparisonCandidates,
               parsed_query.filters)

\* the search call of retrieve_for_comparison
ComparisonCall(parsed_query) ==
    SearchCall(build_search_text(parsed_query), ComparisonCandidates, EmptyDict)

\* QueryRetriever.retrieve_for_comparison; hits: what the index holds
retrieve_for_comparison(parsed_query, hits) ==
    Comparison(search_books(hits, ComparisonCall(parsed_query)))

\* sorted(): whether an element with key a stays in front of a later element
\* with key b; equal keys keep their order, also with reverse=True
StaysBefore(a, b, reverse) == IF reverse THEN a >= b ELSE a <= b

RECURSIVE Insert(_, _, _)
\* the sorted list with the later element x = [key, item] put in its place
Insert(list, x, reverse) ==
    IF list = <<>> THEN <<x>>
    ELSE IF StaysBefore(Head(list).key, x.key, reverse)
    THEN <<Head(list)>> \o Insert(Tail(list), x, reverse)
    ELSE <<x>> \o list

RECURSIVE SortFrom(_, _, _, _, _)
\* the elements items[k..] put into the sorted list, in their order
SortFrom(items, keys, k, reverse, list) ==
    IF k > Len(items) THEN list
    ELSE SortFrom(items, keys, k + 1, reverse,
                  Insert(list, [key |-> keys[k], item |-> items[k]], reverse))

\* the items of a list of [key, item]
ItemsOf(list) == [k \in 1..Len(list) |-> list[k].item]

\* sorted(items, key=..., reverse=...): keys[k] is the key of items[k]
sorted_by(items, keys, reverse) == ItemsOf(SortFrom(items, keys, 1, reverse, <<>>))

AnalyticsCandidates == 100

\* the lower of the two middle elements on an even count
MedianIndexLower(n) == (n - 1) \div 2 + 1

\* the element `sorted(prices)[len(prices) // 2]` takes, counted from 1
MedianIndex(n) == n \div 2 + 1

\* QueryRetriever._calculate_price_stats, for the prices of the books
PriceStats(prices) ==
    [average |-> Mean(prices),
     min |-> Least(Elements(prices)),
     max |-> Greatest(Elements(prices)),
     median |-> sorted_by(prices, prices, FALSE)[MedianIndex(Len(prices))]]

calculate_price_stats(books) == PriceStats(PricesOf(books))

\* QueryRetriever._calculate_rating_stats, for the ratings that are neither
\* None nor 0
RatingStats(ratings) ==
    IF ratings = <<>>
    THEN [average |-> None, min |-> None, max |-> None]
    ELSE [average |-> Some(Mean(ratings)),
          min |-> Some(Least(Elements(ratings))),
          max |-> Some(Greatest(Elements(ratings))),
          count |-> Len(ratings)]

calculate_rating_stats(books) == RatingStats(RatingsOf(books))

\* [b['metadata'][field] for b in books]
FieldOf(books, field) == [k \in 1..Len(books) |-> books[k].metadata[field]]

RECURSIVE FirstSeen(_, _)
\* the different values of a list, in the order of their first occurrence:
\* the keys of Counter(values)
FirstSeen(values, k) ==
    IF k > Len(values) THEN <<>>
    ELSE (IF \E j \in 1..(k - 1) : values[j] = values[k] THEN <<>>
          ELSE <<values[k]>>) \o FirstSeen(values, k + 1)

\* the items of the counter with these keys
CountsOf(values, keys) ==
    [k \in 1..Len(keys) |->
        [key |-> keys[k],
         count |-> Cardinality({i \in 1..Len(values) : values[i] = keys[k]})]]

\* Counter(values), as the list of its items in insertion order
Counter(values) == CountsOf(values, FirstSeen(values, 1))

\* [count for key, count in items]
CountsIn(items) == [k \in 1..Len(items) |-> items[k].count]

\* Counter.most_common(): the items sorted by count, largest first
most_common(items) == sorted_by(items, CountsIn(items), TRUE)

\* QueryRetriever._calculate_genre_distribution
calculate_genre_distribution(books) == most_common(Counter(FieldOf(books, "genre")))

\* QueryRetriever._calculate_store_distribution
calculate_store_distribution(books) == Counter(FieldOf(books, "store_name"))

\* [b['metadata'].get(field, default) for b in books]
FieldOr(books, field, default) ==
    [k \in 1..Len(books) |->
        IF field \in DOMAIN books[k].metadata THEN books[k].metadata[field]
        ELSE default]

\* the books whose metadata has the field
Having(books, field) ==
    SelectSeq(books, LAMBDA book : field \in DOMAIN book.metadata)

\* a format distribution that leaves out the books without format
format_distribution_of_known(books) ==
    Counter(FieldOf(Having(books, "format_type"), "format_type"))

\* QueryRetriever._calculate_format_distribution
calculate_format_distribution(books) ==
    Counter(FieldOr(books, "format_type", "Physical"))

\* the analytics of a non-empty list of books
Analytics(books) ==
    [total_books |-> Len(books),
     price_stats |-> calculate_price_stats(books),
     rating_stats |-> calculate_rating_stats(books),
     genre_distribution |-> calculate_genre_distribution(books),
     store_distribution |-> calculate_store_distribution(books),
     format_distribution |-> calculate_format_distribution(books)]

\* the no-data result with zeroed statistics next to the error
NoDataZeroed == [error |-> "No books found for analytics", total_books |-> 0]

\* the result for an empty list of books
NoData == [error |-> "No books found for analytics"]

\* `if not books: return {'error': ...}`, else the analytics
Analyzed(books) == IF books = <<>> THEN NoData ELSE Analytics(books)

\* the search call of retrieve_for_analytics
AnalyticsCall(parsed_query) ==
    SearchCall(build_search_text(parsed_query), AnalyticsCandidates,
               parsed_query.filters)

\* QueryRetriever.retrieve_for_analytics; hits: what the index holds
retrieve_for_analytics(parsed_query, hits) ==
    Analyzed(search_books(hits, AnalyticsCall(parsed_query)))

\* what a strategy does: it returns a value or an exception leaves it
Returns(value) == [kind |-> "return", value |-> value]
Raises(class) == [kind |-> "raise", class |-> class]

\* the key function of _apply_sorting for a sort key: the price, or
\* metadata.get('rating', 0) / metadata.get('publication_year', ...), which is
\* the None of the metadata when the key is there with the value None
SortKeyOf(hit, sort_by) ==
    CASE sort_by \in {"price_asc", "price_desc"} -> Some(hit.metadata.price)
      [] sort_by = "rating_desc" -> hit.metadata.rating
      [] sort_by \in {"year_desc", "year_asc"} -> hit.metadata.publication_year

\* the sort keys of the results, in their order
SortKeysOf(results, sort_by) ==
    [k \in 1..Len(results) |-> SortKeyOf(results[k], sort_by)]

\* reverse=True
Descending(sort_by) == sort_by \in {"price_desc", "rating_desc", "year_desc"}

\* sorted() compares every element with another one when there are two or
\* more; a comparison with None raises TypeError
Comparable(keys) == Len(keys) < 2 \/ \A k \in 1..Len(keys) : keys[k] # None

\* the keys as sorted() sees them: the numbers, and None as it is
NumbersOf(keys) ==
    [k \in 1..Len(keys) |-> IF keys[k] = None THEN None ELSE keys[k][1]]

\* sorted(results, key=..., reverse=...) for the keys of the results
SortedResults(results, keys, reverse) ==
    IF Comparable(keys)
    THEN Returns(sorted_by(results, NumbersOf(keys), reverse))
    ELSE Raises("TypeError")

\* QueryRetriever._apply_sorting
apply_sorting(results, sort_by) ==
    IF sort_by \in {"price_asc", "price_desc", "rating_desc", "year_desc",
                    "year_asc"}
    THEN SortedResults(results, SortKeysOf(results, sort_by), Descending(sort_by))
    ELSE Returns(results)

\* entities.get('limit') or metadata.get('result_limit') or 10
SearchLimit(parsed_query) ==
    OrElse(parsed_query.entities.limit,
           OrElse(parsed_query.metadata.result_limit, DefaultLimit))

\* the search call of retrieve_for_search
SearchStrategyCall(parsed_query) ==
    SearchCall(build_search_text(parsed_query), SearchLimit(parsed_query),
               parsed_query.filters)

\* `if parsed_query.entities.get('sort_by'):` the results sorted, else as they
\* came
SortedIfAsked(results, sort_by) ==
    IF sort_by # None /\ sort_by # Some("")
    THEN apply_sorting(results, sort_by[1])
    ELSE Returns(results)

\* QueryRetriever.retrieve_for_search; hits: what the index holds
retrieve_for_search(parsed_query, hits) ==
    SortedIfAsked(search_books(hits, SearchStrategyCall(parsed_query)),
                  parsed_query.entities.sort_by)

FilterLimit == 20
InformationCandidates == 1

\* the search call of retrieve_for_filter: the keywords, or 'books'
FilterCall(parsed_query) ==
    SearchCall(TextOf(parsed_query.keywords, "books"),
               OrElse(parsed_query.entities.limit, FilterLimit),
               parsed_query.filters)

\* QueryRetriever.retrieve_for_filter; hits: what the index holds
retrieve_for_filter(parsed_query, hits) ==
    search_books(hits, FilterCall(parsed_query))

\* the search call of retrieve_for_information
InformationCall(parsed_query) ==
    SearchCall(build_search_text(parsed_query), InformationCandidates,
               parsed_query.filters)

\* results[0] if results else None
FirstOrNone(results) == IF results = <<>> THEN None ELSE Some(results[1])

\* QueryRetriever.retrieve_for_information; hits: what the index holds
retrieve_for_information(parsed_query, hits) ==
    FirstOrNone(search_books(hits, InformationCall(parsed_query)))

\* the six strategies of QueryRetriever, named by the intent they serve
Strategies ==
    {"search", "recommendation", "comparison", "analytics", "filter",
     "information"}

\* the call of indexer.search_books a strategy makes
StrategyCall(name, parsed_query) ==
    CASE name = "search" -> SearchStrategyCall(parsed_query)
      [] name = "recommendation" -> RecommendationCall(parsed_query)
      [] name = "comparison" -> ComparisonCall(parsed_query)
      [] name = "analytics" -> AnalyticsCall(parsed_query)
      [] name = "filter" -> FilterCall(parsed_query)
      [] name = "information" -> InformationCall(parsed_query)

\* the calls of indexer.search_books of one invocation of a strategy: each
\* strategy has one call site, outside of any loop
StrategyCalls(name, parsed_query) == <<StrategyCall(name, parsed_query)>>

\* what a strategy does once the collaborator has answered
StrategyAnswer(name, parsed_query, hits) ==
    CASE name = "search" -> retrieve_for_search(parsed_query, hits)
      [] name = "recommendation" ->
            Returns(retrieve_for_recommendation(parsed_query, hits))
      [] name = "comparison" -> Returns(retrieve_for_comparison(parsed_query, hits))
      [] name = "analytics" -> Returns(retrieve_for_analytics(parsed_query, hits))
      [] name = "filter" -> Returns(retrieve_for_filter(parsed_query, hits))
      [] name = "information" ->
            Returns(retrieve_for_information(parsed_query, hits))

\* a strategy that answers a failure of the collaborator with an empty list
StrategyOutcomeGuarded(name, parsed_query, hits, error) ==
    IF error # None THEN Returns(<<>>)
    ELSE StrategyAnswer(name, parsed_query, hits)

\* one invocation of a strategy: no strategy has a try statement, so what
\* search_books raises leaves the strategy
StrategyOutcome(name, parsed_query, hits, error) ==
    IF error # None THEN Raises(error[1])
    ELSE StrategyAnswer(name, parsed_query, hits)

\* a call of retrieve_for_recommendation(parsed_query)
Recommend ==
    /\ strategy' = Some("recommendation")
    /\ searchCalls' = <<RecommendationCall(Processed)>>
    /\ result' = Some(retrieve_for_recommendation(Processed, indexHits))
    /\ UNCHANGED <<userQuery, hashOrder, parsedNow, interpreters, parsed,
                   handlers, nreg, lastRegistered, outcome, invoked,
                   indexHits, indexError, tasks>>

\* a call of retrieve_for_comparison(parsed_query)
Compare ==
    /\ strategy' = Some("comparison")
    /\ searchCalls' = <<ComparisonCall(Processed)>>
    /\ result' = Some(retrieve_for_comparison(Processed, indexHits))
    /\ UNCHANGED <<userQuery, hashOrder, parsedNow, interpreters, parsed,
                   handlers, nreg, lastRegistered, outcome, invoked,
                   indexHits, indexError, tasks>>

\* a call of retrieve_for_analytics(parsed_query)
Analyze ==
    /\ strategy' = Some("analytics")
    /\ searchCalls' = <<AnalyticsCall(Processed)>>
    /\ result' = Some(retrieve_for_analytics(Processed, indexHits))
    /\ UNCHANGED <<userQuery, hashOrder, parsedNow, interpreters, parsed,
                   handlers, nreg, lastRegistered, outcome, invoked,
                   indexHits, indexError, tasks>>

\* a call of retrieve_for_search(parsed_query)
Find ==
    /\ strategy' = Some("search")
    /\ searchCalls' = <<SearchStrategyCall(Processed)>>
    /\ result' = Some(retrieve_for_search(Processed, indexHits))
    /\ UNCHANGED <<userQuery, hashOrder, parsedNow, interpreters, parsed,
                   handlers, nreg, lastRegistered, outcome, invoked,
                   indexHits, indexError, tasks>>

InitRetriever ==
    /\ Started
    /\ RouterIdle
    /\ indexHits \in Rankings
    /\ indexError = None
    /\ strategy = None
    /\ searchCalls = <<>>
    /\ result = None

NextRetriever == Recommend \/ Compare \/ Analyze

\* a retriever over an index: the strategies are called on the parsed query
SpecRetriever == InitRetriever /\ [][NextRetriever]_vars

InitSearch ==
    /\ StartedOn(SearchQueries)
    /\ hashOrder = SeedOrder(0)
    /\ RouterIdle
    /\ indexHits \in Rankings
    /\ indexError = None
    /\ strategy = None
    /\ searchCalls = <<>>
    /\ result = None

NextSearch == Find

\* a retriever over an index: the search strategy is called on a search query
SpecSearch == InitSearch /\ [][NextSearch]_vars

\* queries of every intent, with and without limit, sort preference, filters
\* and keywords
PipelineQueries ==
    {"", "Find books", "recommend fantasy", "Compare store a",
     "how many mystery", "under $20", "tell me about dune", "hello",
     "top 2 cheapest", "2 books oldest"}

\* the failures of the collaborator: an Exception and a BaseException
CollaboratorErrors == {"ConnectionError", "KeyboardInterrupt"}

\* the collaborator answers every call with the hits it holds, or fails
\* every call
IndexStates ==
    \/ indexHits \in Rankings /\ indexError = None
    \/ indexHits = <<>> /\ indexError \in {Some(c) : c \in CollaboratorErrors}

\* a call of one of the six strategies; result holds Returns(value) or
\* Raises(class)
Retrieve ==
    /\ \E name \in Strategies :
        /\ strategy' = Some(name)
        /\ searchCalls' = StrategyCalls(name, Processed)
        /\ result' = Some(StrategyOutcome(name, Processed, indexHits, indexError))
    /\ UNCHANGED <<userQuery, hashOrder, parsedNow, interpreters, parsed,
                   handlers, nreg, lastRegistered, outcome, invoked,
                   indexHits, indexError, tasks>>

InitStrategies ==
    /\ StartedOn(PipelineQueries)
    /\ hashOrder = SeedOrder(0)
    /\ RouterIdle
    /\ IndexStates
    /\ strategy = None
    /\ searchCalls = <<>>
    /\ result = None

NextStrategies == Retrieve

\* a retriever over a collaborator that answers or fails: any strategy is
\* called on the parsed query
SpecStrategies == InitStrategies /\ [][NextStrategies]_vars

(***************************************************************************)
(* The pipeline (demo_complete_pipeline.py): the six strategies of the     *)
(* retriever are the handlers of the router, and threads call route on one *)
(* router.  A route call is a sequence of steps of its thread: process,    *)
(* the lookup of the handler, the call of the handler; the steps of the    *)
(* threads interleave.  The locals of a call, and the ParsedQuery object   *)
(* process created for it, belong to the call.                             *)
(***************************************************************************)
\* the registry after the six register_handler calls of the demo: a handler
\* is named after the strategy it is bound to
DemoHandlers == [intent \in Strategies |-> intent]

\* the registries of the pipeline: the demo's, and one without Analytics
Registries == {DemoHandlers, Lacking(DemoHandlers, "analytics")}

\* str(e) for the exception of a class
ErrorText(class) ==
    IF class = "TypeError"
    THEN "'<' not supported between instances of 'NoneType' and 'float'"
    ELSE "index unavailable"

\* the outcome of a strategy with the message of what it raised
WithMessage(run) ==
    IF run.kind = "raise"
    THEN [kind |-> "raise", class |-> run.class, message |-> ErrorText(run.class)]
    ELSE run

\* a handler that raises when the analytics strategy finds no book
RunStrategyNoDataRaises(name, parsed_query, hits, error) ==
    IF name = "analytics" /\ error = None /\ hits = <<>>
    THEN [kind |-> "raise", class |-> "RuntimeError",
          message |-> "No books found for analytics"]
    ELSE WithMessage(StrategyOutcome(name, parsed_query, hits, error))

\* handler(parsed_query) for the bound method of a strategy
RunStrategy(name, parsed_query, hits, error) ==
    WithMessage(StrategyOutcome(name, parsed_query, hits, error))

\* QueryRouter.route, from the lookup on, on a registry of strategies
route_alone(hs, parsed_query, shown, hits, error) ==
    IF Get(hs, parsed_query.intent) = None
    THEN Returned(NoHandlerEnvelope(parsed_query, shown))
    ELSE Guarded(RunStrategy(hs[parsed_query.intent], parsed_query, hits, error),
                 parsed_query)

\* a _build_search_text that extends parsed_query.keywords in place
ParsedAfterExtending(name, parsed_query) ==
    [parsed_query EXCEPT !.keywords = @ \o parsed_query.entities.genres]

\* the fields of the ParsedQuery object after a strategy ran on it: the
\* strategies read original_query, keywords, entities, metadata and filters,
\* build their lists anew and assign no field
ParsedAfter(name, parsed_query) == parsed_query

\* a route call that has not started
NewTask(query) ==
    [query |-> query, pc |-> "process", parsed_query |-> None,
     handler |-> None, outcome |-> NoOutcome]

\* a router that keeps the parsed query in an attribute of its own, which
\* the first call writes
ParsedOfShared(calls, t) ==
    IF calls[1].parsed_query # None THEN calls[1].parsed_query[1]
    ELSE calls[t].parsed_query[1]

\* the local parsed_query of a route call
ParsedOf(calls, t) == calls[t].parsed_query[1]

\* parsed_query = self.query_processor.process(query)
ProcessStep(t) ==
    /\ tasks[t].pc = "process"
    /\ tasks' = [tasks EXCEPT
                    ![t].parsed_query = Some(process(tasks[t].query, hashOrder)),
                    ![t].pc = "lookup"]

\* handler = self.handlers.get(parsed_query.intent), and the return of the
\* no-handler envelope
LookupStep(t) ==
    /\ tasks[t].pc = "lookup"
    /\ \E found \in {Get(handlers, ParsedOf(tasks, t).intent)} :
        IF found = None
        THEN \E shown \in IntentFormats(ParsedOf(tasks, t).intent) :
                tasks' = [tasks EXCEPT
                    ![t].outcome =
                        Returned(NoHandlerEnvelope(ParsedOf(tasks, t), shown)),
                    ![t].pc = "done"]
        ELSE tasks' = [tasks EXCEPT ![t].handler = found, ![t].pc = "handle"]

\* the try statement: result = handler(parsed_query) and the return of an
\* envelope, which refers to the ParsedQuery object
HandleStep(t) ==
    /\ tasks[t].pc = "handle"
    /\ \E run \in {RunStrategy(tasks[t].handler[1], ParsedOf(tasks, t),
                                indexHits, indexError)},
          after \in {ParsedAfter(tasks[t].handler[1], ParsedOf(tasks, t))} :
        tasks' = [tasks EXCEPT
                    ![t].parsed_query = Some(after),
                    ![t].outcome = Guarded(run, after),
                    ![t].pc = "done"]

\* a step of one of the route calls in flight
Step ==
    /\ \E t \in DOMAIN tasks : ProcessStep(t) \/ LookupStep(t) \/ HandleStep(t)
    /\ UNCHANGED <<userQuery, hashOrder, parsedNow, interpreters, parsed,
                   handlers, nreg, lastRegistered, outcome, invoked,
                   indexHits, indexError, strategy, searchCalls, result>>

\* what the collaborator of the pipeline holds: nothing, or three hits, or it
\* fails
PipelineIndexStates ==
    \/ indexHits \in {<<>>, HitsFrom(<<3, 1, 4>>, 1)} /\ indexError = None
    \/ indexHits = <<>> /\ indexError \in {Some(c) : c \in CollaboratorErrors}

\* the queries of the threads next to the first
OtherQueries == {"hello", "how many mystery", "Compare store a"}

\* the registry is complete before the first route call; every thread has
\* its query, the first thread the query of the run
InitPipeline ==
    /\ StartedOn(PipelineQueries)
    /\ hashOrder = SeedOrder(0)
    /\ handlers \in Registries
    /\ nreg = Cardinality(DOMAIN handlers)
    /\ lastRegistered = handlers
    /\ outcome = NoOutcome
    /\ invoked = <<>>
    /\ PipelineIndexStates
    /\ strategy = None
    /\ searchCalls = <<>>
    /\ result = None
    /\ \E queries \in [1..MaxThreads -> PipelineQueries] :
        /\ queries[1] = userQuery
        /\ \A t \in 2..MaxThreads : queries[t] \in OtherQueries
        /\ tasks = [t \in 1..MaxThreads |-> NewTask(queries[t])]

NextPipeline == Step

\* threads route their queries on one router, bound to the retriever
SpecPipeline == InitPipeline /\ [][NextPipeline]_vars

(***************************************************************************)
(* Properties of QueryProcessor.process, under SpecProcess.                *)
(***************************************************************************)
\* C4: two calls of process on the same query yield field-for-field identical
\* ParsedQuery values, the order of the genres list included.
C4_Deterministic == \A i, j \in 1..Len(parsed) : parsed[i] = parsed[j]

\* C5: the confidence of every ParsedQuery that process returns lies between
\* 0 and 1 (10 tenths), whatever number of keywords and patterns match.
C5_ConfidenceBounded ==
    \A k \in 1..Len(parsed) : 0 <= parsed[k].confidence /\ parsed[k].confidence <= 10

\* process has returned the confidence 1.0 for a query that matches a keyword
\* and two patterns of one intent
C5_Witness ==
    /\ userQuery = "Find books about"
    /\ parsed # <<>>
    /\ parsed[1].confidence = 10

\* for a ParsedQuery and the scores of its query, with their maximum:
\* Unknown exactly below 0.3, the confidence is the maximum, and a
\* non-Unknown intent is one that reaches the maximum
ThresholdRule(parsed_query, scores, highest) ==
    /\ parsed_query.intent = UNKNOWN <=> highest < 3
    /\ parsed_query.confidence = highest
    /\ parsed_query.intent # UNKNOWN
        => scores[IntentIndex(parsed_query.intent)] = highest

ThresholdRuleFor(parsed_query, scores) ==
    ThresholdRule(parsed_query, scores, Greatest(Elements(scores)))

\* C6: the intent of process(q) is Unknown exactly when the largest of the
\* per-intent scores is below 0.3 (3 tenths); the confidence is that largest
\* score in both cases; a score of exactly 0.3 yields the winning intent.
C6_UnknownBelowThreshold ==
    \A k \in 1..Len(parsed) : ThresholdRuleFor(parsed[k], IntentScores(userQuery))

\* process has returned a non-Unknown intent with confidence exactly 0.3
C6_Witness ==
    /\ parsed # <<>>
    /\ parsed[1].confidence = 3
    /\ parsed[1].intent # UNKNOWN

\* the keys a filter dictionary may have
FilterWhitelist ==
    {"price", "rating", "store_id", "format_type", "availability", "genre"}

\* a filter dictionary has whitelisted keys only, and under a key either an
\* equality or the operators $gte, $lte, $in
Whitelisted(filters) ==
    /\ DOMAIN filters \subseteq FilterWhitelist
    /\ \A key \in DOMAIN filters :
        \/ filters[key].kind = "value"
        \/ /\ filters[key].kind = "ops"
           /\ DOMAIN filters[key].ops \subseteq {"$gte", "$lte", "$in"}

\* C7: every key of process(q).filters is one of price, rating, store_id,
\* format_type, availability, genre, and the operators under a key are only
\* greater-or-equal, less-or-equal and set-membership.
C7_FilterWhitelist == \A k \in 1..Len(parsed) : Whitelisted(parsed[k].filters)

\* process has returned filters with a price bound next to another key
C7_Witness ==
    /\ parsed # <<>>
    /\ "price" \in DOMAIN parsed[1].filters
    /\ parsed[1].filters["price"].kind = "ops"
    /\ Cardinality(DOMAIN parsed[1].filters) >= 2

\* the entities and filters the scenario states, with a given intent
ScenarioResult(parsed_query, intent) ==
    /\ parsed_query.intent = intent
    /\ parsed_query.entities.genres = <<"science fiction">>
    /\ parsed_query.entities.price_range = Some(Put(EmptyDict, "max", 2000))
    /\ DOMAIN parsed_query.filters = {"genre", "price"}
    /\ parsed_query.filters["genre"] = Bare("science fiction")
    /\ parsed_query.filters["price"] = Ops(Put(EmptyDict, "$lte", 2000))

\* C12, as claimed: process("Find science fiction books under $20") yields the
\* intent Search, the genres ["science fiction"], the price range {max: 20.0}
\* and as filters exactly genre = "science fiction" and price <= 20.0.
C12_ScenarioIsSearch ==
    \A k \in 1..Len(parsed) :
        userQuery = ScenarioQuery => ScenarioResult(parsed[k], "search")

\* C12, amended: the same entities and filters, with the intent Filter.
C12_ScenarioIsFilter ==
    \A k \in 1..Len(parsed) :
        userQuery = ScenarioQuery => ScenarioResult(parsed[k], "filter")

\* process has returned the ParsedQuery of the scenario query, with the
\* confidence 0.8 of the keyword "under" and the pattern "under $N"
C12_Witness ==
    /\ userQuery = ScenarioQuery
    /\ parsed # <<>>
    /\ parsed[1].confidence = 8
    /\ parsed[1].original_query = ScenarioQuery

\* the intents that reach the largest of the scores, by their position
Winners(scores) ==
    {j \in 1..Len(scores) : scores[j] = Greatest(Elements(scores))}

\* the intent is the first of the winners in the enumeration order
FirstWinner(parsed_query, scores) ==
    parsed_query.intent # UNKNOWN
    => IntentIndex(parsed_query.intent) = Least(Winners(scores))

QueryLower == Strip(Lower(userQuery))

\* the identifiers of the stores the query mentions as "store X",
\* "bookstore X" or "shop X"
MentionedStores(query) ==
    {"store_" \o x : x \in {x \in {"a", "b"} :
        Search(<<Alt({"store", "bookstore", "shop"}), Ws, Alt({x})>>, query)}}

\* the filter entry under a key for the mentioned identifiers: an equality
\* for one, a set-membership that lists each once for several
EntryFor(filters, key, mentioned) ==
    Cardinality(mentioned) >= 1
    => /\ key \in DOMAIN filters
       /\ IF Cardinality(mentioned) = 1
          THEN /\ filters[key].kind = "value"
               /\ filters[key].v \in mentioned
          ELSE /\ filters[key].kind = "ops"
               /\ DOMAIN filters[key].ops = {"$in"}
               /\ Elements(filters[key].ops["$in"]) = mentioned
               /\ Len(filters[key].ops["$in"]) = Cardinality(mentioned)

\* C14: in process(q).filters the store_id entry (the genre entry) is an
\* equality when the query mentions one store (one genre) and a
\* set-membership over the mentioned identifiers, each listed once, when it
\* mentions several, for each of the phrasings store X, bookstore X, shop X.
C14_EqualityOrMembership ==
    \A k \in 1..Len(parsed) :
        /\ EntryFor(parsed[k].filters, "store_id", MentionedStores(QueryLower))
        /\ EntryFor(parsed[k].filters, "genre", FoundGenres(QueryLower))

\* the query holds "in stock", or "available" as a phrase of its own (not as
\* the end of "unavailable")
InStockPhrase(query) ==
    \/ Contains(query, "in stock")
    \/ \E i \in 1..Len(query) :
        HasAt(query, i, "available") /\ ~HasAt(query, i - 2, "un")

OutOfStockPhrase(query) ==
    Contains(query, "out of stock") \/ Contains(query, "unavailable")

\* the availability the phrases of a query call for
AvailabilityRule(availability, query) ==
    /\ (OutOfStockPhrase(query) /\ ~InStockPhrase(query))
        => availability = Some(FALSE)
    /\ (InStockPhrase(query) /\ ~OutOfStockPhrase(query))
        => availability = Some(TRUE)
    /\ (~InStockPhrase(query) /\ ~OutOfStockPhrase(query))
        => availability = None

\* C15: availability is false for a query with "out of stock" or
\* "unavailable" and no in-stock phrase, true for a query whose availability
\* phrase is "in stock" or "available", and null without any such phrase.
C15_AvailabilityByPhrase ==
    \A k \in 1..Len(parsed) :
        AvailabilityRule(parsed[k].entities.availability, QueryLower)

\* the rating range of a query with "highly rated" or "high rating": min is
\* 4.0, and the bound of "rated below 3" is its max
HighlyRatedRule(rating_range, query) ==
    (Contains(query, "highly rated") \/ Contains(query, "high rating"))
    => /\ rating_range # None
       /\ "min" \in DOMAIN rating_range[1]
       /\ rating_range[1]["min"] = 40
       /\ Contains(query, "rated below 3")
            => /\ "max" \in DOMAIN rating_range[1]
               /\ rating_range[1]["max"] = 30

\* C16: when the query contains "highly rated" or "high rating", the rating
\* range has min = 4.0 whatever "rated above N" or "rated below N" the query
\* also contains, and a "rated below N" bound is kept as max.
C16_HighlyRatedMin ==
    \A k \in 1..Len(parsed) :
        HighlyRatedRule(parsed[k].entities.rating_range, QueryLower)

\* process has returned min = 4.0 for a query that asks for "rated above 3"
\* before it says "highly rated"
C16_Witness ==
    /\ userQuery = "rated above 3 highly rated"
    /\ parsed # <<>>
    /\ parsed[1].entities.rating_range = Some(Put(EmptyDict, "min", 40))

\* the sort rules, in their fixed order: the phrases of a rule and its key
SortRules ==
    << [phrases |-> {"cheapest", "lowest price"}, key |-> "price_asc"],
       [phrases |-> {"most expensive", "highest price"}, key |-> "price_desc"],
       [phrases |-> {"highest rated", "best rated"}, key |-> "rating_desc"],
       [phrases |-> {"newest", "most recent"}, key |-> "year_desc"],
       [phrases |-> {"oldest"}, key |-> "year_asc"] >>

\* the rules one of whose phrases the query holds
MatchingRules(query) ==
    {r \in 1..Len(SortRules) :
        \E phrase \in SortRules[r].phrases : Contains(query, phrase)}

\* the sort key is that of the first matching rule, or none
FirstRuleWins(sort_by, matching) ==
    IF matching = {} THEN sort_by = None
    ELSE sort_by = Some(SortRules[Least(matching)].key)

\* C17: extract produces at most one sort key: that of the first rule, in the
\* order price_asc, price_desc, rating_desc, year_desc, year_asc, one of whose
\* phrases the query holds, wherever the phrases stand in the query.
C17_FirstSortRuleWins ==
    \A k \in 1..Len(parsed) :
        FirstRuleWins(parsed[k].entities.sort_by, MatchingRules(QueryLower))

\* process has returned price_asc for a query that says "oldest" before
\* "cheapest"
C17_Witness ==
    /\ userQuery = "oldest cheapest"
    /\ parsed # <<>>
    /\ parsed[1].entities.sort_by = Some("price_asc")

(***************************************************************************)
(* Properties of QueryRouter.route, under SpecRouter.                      *)
(***************************************************************************)
\* the handler the registry holds for the intent of the query, if any
Registered == Get(handlers, Processed.intent)

\* what the registered handler does when called on the parsed query
RegisteredRun == RunHandler(Registered[1], Processed)

\* a route call has been made on the current registry
Routed == outcome # NoOutcome

\* the route call returned an envelope with exactly these keys
ReturnsKeys(keys) ==
    /\ outcome.kind = "returned"
    /\ DOMAIN outcome.envelope = keys

\* the route call returned this failure envelope
ReturnsFailure(message) ==
    /\ ReturnsKeys({"success", "error", "parsed_query"})
    /\ outcome.envelope.success = FALSE
    /\ outcome.envelope.error = message
    /\ outcome.envelope.parsed_query = Processed

\* C1: when the handler registered for the query's intent raises an exception
\* (a subclass of Exception), route does not raise: it returns an envelope
\* with success = false, the exception's message as error and the parsed
\* query, and without a result key.
C1_HandlerErrorEnvelope ==
    (/\ Routed
     /\ Registered # None
     /\ RegisteredRun.kind = "raise"
     /\ RegisteredRun.class = "RuntimeError")
    => ReturnsFailure(RegisteredRun.message)

\* a route call has returned the failure envelope of the failing handler
C1_Witness ==
    /\ invoked # <<>>
    /\ invoked[1].handler = "failing"
    /\ outcome.kind = "returned"
    /\ outcome.envelope.success = FALSE
    /\ outcome.envelope.error = "search failed: " \o userQuery

\* C2: when the registry has no handler for the query's intent (Unknown
\* included), route returns an envelope with success = false, an error text
\* that names the intent (by its value or by its member name) and the parsed
\* query, and it invokes no handler.
C2_NoHandlerEnvelope ==
    (Routed /\ Registered = None)
    => /\ ReturnsKeys({"success", "error", "parsed_query"})
       /\ outcome.envelope.success = FALSE
       /\ \/ Contains(outcome.envelope.error, Processed.intent)
          \/ Contains(outcome.envelope.error, IntentName[Processed.intent])
       /\ outcome.envelope.parsed_query = Processed
       /\ invoked = <<>>

\* a route call found no handler for an Unknown query although a handler of
\* another intent is registered
C2_Witness ==
    /\ outcome.kind = "returned"
    /\ outcome.envelope.success = FALSE
    /\ invoked = <<>>
    /\ Processed.intent = UNKNOWN
    /\ DOMAIN handlers # {}
    /\ UNKNOWN \notin DOMAIN handlers

\* C3: when the registry has a handler for the query's intent, one route call
\* invokes that handler exactly once, with the ParsedQuery of the query, also
\* when the handler fails; when the handler returns a value the envelope is
\* success = true with that value as result and the parsed query, and it has
\* no error key.
C3_SingleInvocation ==
    (Routed /\ Registered # None)
    => /\ invoked = <<[handler |-> Registered[1], argument |-> Processed]>>
       /\ (RegisteredRun.kind = "return"
           => /\ ReturnsKeys({"success", "parsed_query", "result"})
              /\ outcome.envelope.success = TRUE
              /\ outcome.envelope.result = RegisteredRun.value
              /\ outcome.envelope.parsed_query = Processed)

\* a route call has returned the value of the one handler it called, with
\* another handler registered for another intent
C3_Witness ==
    /\ Len(invoked) = 1
    /\ invoked[1].handler = "handler_b"
    /\ outcome.kind = "returned"
    /\ outcome.envelope.success = TRUE
    /\ outcome.envelope.result = <<"b", Processed.intent, Processed.keywords>>
    /\ Cardinality(DOMAIN handlers) = 2

(***************************************************************************)
(* Properties of the retrieval strategies, under SpecRetriever.            *)
(***************************************************************************)
\* the strategy called last
Called(name) == strategy = Some(name)

\* the candidates the collaborator returned to the strategy called last
Candidates == search_books(indexHits, searchCalls[1])

\* the limit of the parsed query: entities.limit, or 10 without one
Limit == OrElse(Processed.entities.limit, DefaultLimit)

\* what the strategy called last returned
StrategyResult == result[1]

\* the recommendation strategy was called and got at least `limit` candidates
RecommendedEnough == Called("recommendation") /\ Len(Candidates) >= Limit

\* C8: when the collaborator returns at least `limit` candidates (of the
\* 2 * limit requested), retrieve_for_recommendation returns exactly `limit`
\* items, also when several candidates carry identical field values.
C8_ExactlyLimit ==
    RecommendedEnough
    => /\ searchCalls[1].n_results = 2 * Limit
       /\ Len(StrategyResult) = Limit

\* a recommendation of three items, two of which carry the same field values
C8_Witness ==
    /\ RecommendedEnough
    /\ Limit = 3
    /\ Len(StrategyResult) = 3
    /\ \E i, j \in 1..3 : i # j /\ StrategyResult[i].metadata = StrategyResult[j].metadata

SharesBoth(x, y) ==
    /\ x.metadata.author = y.metadata.author
    /\ x.metadata.genre = y.metadata.genre

\* no two of the returned items share both author and genre
NoSharedPair ==
    \A i, j \in 1..Len(StrategyResult) :
        i # j => ~SharesBoth(StrategyResult[i], StrategyResult[j])

\* the candidates that were not returned
UnusedCandidates ==
    {c \in Elements(Candidates) :
        \A k \in 1..Len(StrategyResult) : StrategyResult[k].id # c.id}

\* C9, as claimed: with at least `limit` candidates, no two returned items
\* share both author and genre as long as an unused candidate remains that
\* does not share both author and genre with a returned item.
C9_NoSharedPairWhileFreshPair ==
    (/\ RecommendedEnough
     /\ \E c \in UnusedCandidates :
            \A k \in 1..Len(StrategyResult) : ~SharesBoth(c, StrategyResult[k]))
    => NoSharedPair

\* C9, amended: with at least `limit` candidates, no two returned items share
\* both author and genre as long as an unused candidate remains whose author
\* or whose genre is that of no returned item.
C9_NoSharedPairWhileFreshAxis ==
    (/\ RecommendedEnough
     /\ \E c \in UnusedCandidates :
            \/ \A k \in 1..Len(StrategyResult) :
                    StrategyResult[k].metadata.author # c.metadata.author
            \/ \A k \in 1..Len(StrategyResult) :
                    StrategyResult[k].metadata.genre # c.metadata.genre)
    => NoSharedPair

\* a recommendation of two items that passed over a candidate with the field
\* values of a returned one and left a candidate with a new author unused
C9_Witness ==
    /\ RecommendedEnough
    /\ Limit = 2
    /\ Len(StrategyResult) = 2
    /\ \E c \in UnusedCandidates :
            \A k \in 1..2 : StrategyResult[k].metadata.author # c.metadata.author
    /\ \E c \in UnusedCandidates : \E k \in 1..2 : SharesBoth(c, StrategyResult[k])

\* C10: for a parsed query whose filters hold a store_id constraint,
\* retrieve_for_comparison makes one search call, which carries no store
\* filter and requests at most 50 candidates.
C10_ComparisonUnfiltered ==
    (Called("comparison") /\ "store_id" \in DOMAIN Processed.filters)
    => /\ Len(searchCalls) = 1
       /\ "store_id" \notin DOMAIN searchCalls[1].filters
       /\ searchCalls[1].n_results <= 50

\* a comparison for a query that names one store has seen the books of two
C10_Witness ==
    /\ Called("comparison")
    /\ "store_id" \in DOMAIN Processed.filters
    /\ Processed.filters["store_id"].kind = "value"
    /\ StrategyResult.overall.stores_compared = 2

\* the keys of the analytics result that carry statistics
StatisticsKeys ==
    {"total_books", "price_stats", "rating_stats", "genre_distribution",
     "store_distribution", "format_distribution"}

\* C11: when the collaborator returns an empty list, the result of
\* retrieve_for_analytics has an error key and none of the statistics keys;
\* when it returns hits, the result has every statistics key and no error key.
C11_AnalyticsEmptySignal ==
    Called("analytics")
    => IF Candidates = <<>>
       THEN /\ "error" \in DOMAIN StrategyResult
            /\ DOMAIN StrategyResult \cap StatisticsKeys = {}
       ELSE /\ StatisticsKeys \subseteq DOMAIN StrategyResult
            /\ "error" \notin DOMAIN StrategyResult

\* the analytics strategy was called on an index without hits for a query
\* with filters and returned the error shape
C11_Witness ==
    /\ Called("analytics")
    /\ Candidates = <<>>
    /\ DOMAIN Processed.filters # {}
    /\ DOMAIN StrategyResult = {"error"}

\* the prices of the hits the analytics strategy computed its statistics on
CandidatePrices == FieldOf(Candidates, "price")

\* the number of candidate prices below m, and the number not above m
PricesBelow(m) == Cardinality({k \in DOMAIN CandidatePrices : CandidatePrices[k] < m})
PricesUpTo(m) == Cardinality({k \in DOMAIN CandidatePrices : CandidatePrices[k] <= m})

\* m is the element at place `rank`, counted from 1, of the sorted prices
PriceAtRank(m, rank) ==
    /\ \E k \in DOMAIN CandidatePrices : CandidatePrices[k] = m
    /\ PricesBelow(m) < rank
    /\ PricesUpTo(m) >= rank

\* C20 as stated: for every non-empty hit list the median of the price
\* statistics is the middle element of the sorted prices for an odd count and
\* the lower of the two middle elements for an even count.
C20_MedianLowerMiddle ==
    (Called("analytics") /\ Candidates # <<>>)
    => PriceAtRank(StrategyResult.price_stats.median,
                   (Len(CandidatePrices) + 1) \div 2)

\* C20: for every non-empty hit list the median of the price statistics is
\* the middle element of the sorted prices for an odd count and the upper of
\* the two middle elements for an even count.
C20_MedianUpperMiddle ==
    (Called("analytics") /\ Candidates # <<>>)
    => PriceAtRank(StrategyResult.price_stats.median,
                   Len(CandidatePrices) \div 2 + 1)

\* analytics over four hits whose two middle prices differ reported the
\* upper one
C20_Witness ==
    /\ Called("analytics")
    /\ Len(Candidates) = 4
    /\ PriceAtRank(StrategyResult.price_stats.median, 3)
    /\ ~PriceAtRank(StrategyResult.price_stats.median, 2)

(***************************************************************************)
(* Properties of the search strategy, under SpecSearch.                    *)
(***************************************************************************)
\* C18: for every limit the extractor produced from "top N", "N books" or
\* "first N", N = 0 included, retrieve_for_search requests exactly
\* entities.limit results from the collaborator, and it requests 10 only
\* when no limit was extracted.
C18_RequestsExtractedLimit ==
    Called("search")
    => /\ Len(searchCalls) = 1
       /\ searchCalls[1].n_results =
            IF Processed.entities.limit = None THEN 10
            ELSE Processed.entities.limit[1]

\* the sort key the query asked for, and what the strategy did
AskedSort == Processed.entities.sort_by
SearchOutcome == result[1]

\* list is a permutation of hits, whose ids are distinct
PermutationOf(list, hits) ==
    /\ Len(list) = Len(hits)
    /\ Elements(list) = Elements(hits)

\* the keys of two hits that both have one are in the order of sort_by
InOrder(first, second, sort_by) ==
    \/ first = None
    \/ second = None
    \/ IF Descending(sort_by) THEN first[1] >= second[1] ELSE first[1] <= second[1]

\* list is ordered by the key of sort_by
OrderedBy(list, sort_by) ==
    \A k \in 1..(Len(list) - 1) :
        InOrder(SortKeyOf(list[k], sort_by), SortKeyOf(list[k + 1], sort_by), sort_by)

\* C19: when sort_by was extracted, retrieve_for_search returns a permutation
\* of the hits the collaborator returned, ordered by the requested key, also
\* when a hit has a null rating or publication_year; when sort_by is absent
\* it returns the hits in the collaborator's order.
C19_SortedPermutation ==
    Called("search")
    => /\ SearchOutcome.kind = "return"
       /\ IF AskedSort = None
          THEN SearchOutcome.value = Candidates
          ELSE /\ PermutationOf(SearchOutcome.value, Candidates)
               /\ OrderedBy(SearchOutcome.value, AskedSort[1])

(***************************************************************************)
(* Properties of the statistics of the retriever, under SpecRetriever.     *)
(***************************************************************************)
\* the ratings of the books that have one, 0 included, in their order
NonNullRatings(books) ==
    LET rated == SelectSeq(books, LAMBDA b : b.metadata.rating # None)
    IN  [k \in 1..Len(rated) |-> rated[k].metadata.rating[1]]

\* the rating statistics over the given ratings, or the null shape without any
StatsOver(ratings) ==
    IF ratings = <<>>
    THEN [average |-> None, min |-> None, max |-> None]
    ELSE [average |-> Some([sum |-> ratings, count |-> Len(ratings)]),
          min |-> Some(Least(Elements(ratings))),
          max |-> Some(Greatest(Elements(ratings))),
          count |-> Len(ratings)]

\* the mean rating of every store of a comparison is the one over the
\* non-null ratings of its hits, and null only without such a rating
StoreMeansOverNonNull(comparison, hits) ==
    \A store_id \in DOMAIN comparison.stores :
        comparison.stores[store_id].avg_rating
            = MeanOrNone(NonNullRatings(BooksOf(hits, store_id)))

\* C21: the analytics rating statistics and the comparison's mean rating per
\* store are computed over exactly the items whose rating is non-null, an
\* item with rating 0 counting as rated, and they take the null shape only
\* when no item has a non-null rating.
C21_RatingsOverNonNull ==
    /\ (Called("analytics") /\ Candidates # <<>>)
       => StrategyResult.rating_stats = StatsOver(NonNullRatings(Candidates))
    /\ Called("comparison") => StoreMeansOverNonNull(StrategyResult, Candidates)

(***************************************************************************)
(* Properties of the handler registry, under SpecRouter.                   *)
(***************************************************************************)
\* C28: after any sequence of register_handler and route calls, the registry
\* holds for every intent the handler of the most recent register_handler
\* call for that intent, and none if there was no such call: a registration
\* leaves the entries of the other intents as they were and route leaves the
\* registry as it was.
C28_RegistryHoldsLatest ==
    \A intent \in Intents : Get(handlers, intent) = Get(lastRegistered, intent)

\* two registrations were made for one intent and the query was routed after
\* them
C28_Witness ==
    /\ nreg = 2
    /\ Cardinality(DOMAIN handlers) = 1
    /\ outcome # NoOutcome

(***************************************************************************)
(* Properties of the six strategies, under SpecStrategies.                 *)
(***************************************************************************)
\* C22: every invocation of each of the six strategies issues exactly one
\* call to the search collaborator, whatever the collaborator returns, and
\* an exception that call raises leaves the strategy uncaught.
C22_OneCallAndPropagation ==
    \A name \in Strategies :
        Called(name)
        => /\ Len(searchCalls) = 1
           /\ indexError # None => result = Some(Raises(indexError[1]))

\* the information strategy was called while the collaborator fails, and the
\* failure left it
C22_Witness ==
    /\ Len(searchCalls) = 1
    /\ Called("information")
    /\ indexError = Some("ConnectionError")
    /\ result = Some(Raises("ConnectionError"))

(***************************************************************************)
(* Properties of the diversification, under SpecRetriever.                 *)
(***************************************************************************)
\* the candidate at rank k brings an author or a genre no candidate of a
\* better rank has
FreshAt(k) ==
    \/ \A j \in 1..(k - 1) : Candidates[j].metadata.author # Candidates[k].metadata.author
    \/ \A j \in 1..(k - 1) : Candidates[j].metadata.genre # Candidates[k].metadata.genre

\* the ranks the first pass keeps when it does not reach the limit, and the
\* ranks it leaves
KeptRanks == {k \in 1..Len(Candidates) : FreshAt(k)}
LeftRanks == (1..Len(Candidates)) \ KeptRanks

\* the number of ranks of S that are not above k
RankIn(S, k) == Cardinality({j \in S : j <= k})

\* place p of the list that has the kept candidates in rank order, then the
\* candidates left in rank order
BackfilledAt(p) ==
    IF p <= Cardinality(KeptRanks)
    THEN Candidates[CHOOSE k \in KeptRanks : RankIn(KeptRanks, k) = p]
    ELSE Candidates[CHOOSE k \in LeftRanks :
                        RankIn(LeftRanks, k) = p - Cardinality(KeptRanks)]

\* the ids of a list of hits are pairwise different
DistinctIds(list) == \A i, j \in 1..Len(list) : list[i].id = list[j].id => i = j

\* the first pass of the recommendation called last kept fewer than limit
FirstPassShort == Called("recommendation") /\ Cardinality(KeptRanks) < Limit

\* C24: when the first diversification pass keeps fewer than limit items, the
\* returned list is the first-pass items in rank order followed by the
\* not-yet-kept candidates in original rank order, until limit is reached or
\* the candidates are exhausted; no candidate appears twice and the
\* top-ranked candidate is the first returned item.
C24_BackfillInRankOrder ==
    FirstPassShort
    => /\ Len(StrategyResult) = Min(Limit, Len(Candidates))
       /\ \A p \in 1..Len(StrategyResult) : StrategyResult[p] = BackfilledAt(p)
       /\ DistinctIds(StrategyResult)
       /\ Candidates # <<>> => StrategyResult[1] = Candidates[1]

\* of four candidates the first pass kept the first and the third, and the
\* list of three returned has the second candidate last
C24_Witness ==
    /\ FirstPassShort
    /\ Len(Candidates) = 4
    /\ Limit = 3
    /\ KeptRanks = {1, 3}
    /\ StrategyResult = <<Candidates[1], Candidates[3], Candidates[2]>>

(***************************************************************************)
(* Properties of the comparison, under SpecStrategies.                     *)
(***************************************************************************)
\* the comparison the strategy called last returned
ComparisonResult == result[1].value

\* the ranks of the candidates of a store
RanksOf(store_id) ==
    {k \in 1..Len(Candidates) : Candidates[k].metadata.store_id = store_id}

RECURSIVE BookCounts(_, _)
\* the sum of the book_count of the given stores
BookCounts(stores, ids) ==
    IF ids = {} THEN 0
    ELSE stores[CHOOSE s \in ids : TRUE].book_count
         + BookCounts(stores, ids \ {CHOOSE s \in ids : TRUE})

\* the groups are the stores of the candidates, each with the number of its
\* candidates
GroupsPartition(comparison) ==
    /\ DOMAIN comparison.stores = StoreIds(Candidates)
    /\ \A s \in DOMAIN comparison.stores :
            comparison.stores[s].book_count = Cardinality(RanksOf(s))
    /\ BookCounts(comparison.stores, DOMAIN comparison.stores)
            = comparison.overall.total_books
    /\ comparison.overall.total_books = Len(Candidates)
    /\ comparison.overall.stores_compared = Cardinality(StoreIds(Candidates))

\* the mean price of a store lies between its least and its greatest price,
\* as floats
MeanWithinRange(metrics) ==
    /\ FloatLeq(FloatOf(metrics.min_price, 100), FloatMean(metrics.avg_price, 100))
    /\ FloatLeq(FloatMean(metrics.avg_price, 100), FloatOf(metrics.max_price, 100))

\* the sample of a store has its first min(3, book_count) candidates, in rank
\* order
SampleIsFirst(metrics, ranks) ==
    /\ Len(metrics.sample_books) = Min(3, metrics.book_count)
    /\ \A p \in 1..Len(metrics.sample_books) :
            metrics.sample_books[p]
                = Candidates[CHOOSE k \in ranks : RankIn(ranks, k) = p]

\* C26: in the comparison result the groups per store partition the hits:
\* every hit is counted in the book_count of the store of its store_id, the
\* book_counts sum to overall.total_books, stores_compared is the number of
\* distinct store ids, each store has min_price <= avg_price <= max_price,
\* and sample_books holds the first min(3, book_count) hits of the store in
\* rank order.
C26_GroupsPartitionHits ==
    (Called("comparison") /\ indexError = None)
    => /\ GroupsPartition(ComparisonResult)
       /\ \A s \in DOMAIN ComparisonResult.stores :
            /\ MeanWithinRange(ComparisonResult.stores[s])
            /\ SampleIsFirst(ComparisonResult.stores[s], RanksOf(s))

(***************************************************************************)
(* Properties of the filters and the metadata of process, under            *)
(* SpecConstraints.                                                        *)
(***************************************************************************)
\* the keys the filters must have for the entities
KeysFor(entities) ==
    {key \in FilterWhitelist :
        CASE key = "price" -> entities.price_range # None
          [] key = "rating" -> entities.rating_range # None
          [] key = "store_id" -> entities.stores # <<>>
          [] key = "format_type" -> entities.format # None
          [] key = "availability" -> entities.availability # None
          [] key = "genre" -> entities.genres # <<>>}

\* the flags of the metadata say which keys the filters have
FlagsAgree(metadata, filters) ==
    /\ metadata.has_price_constraint <=> "price" \in DOMAIN filters
    /\ metadata.has_rating_constraint <=> "rating" \in DOMAIN filters
    /\ metadata.has_store_preference <=> "store_id" \in DOMAIN filters
    /\ metadata.genre_count > 0 <=> "genre" \in DOMAIN filters

\* the filters and the metadata of a ParsedQuery follow its entities
FiltersFollowEntities(parsed_query) ==
    /\ DOMAIN parsed_query.filters = KeysFor(parsed_query.entities)
    /\ FlagsAgree(parsed_query.metadata, parsed_query.filters)
    /\ parsed_query.metadata.genre_count = Len(parsed_query.entities.genres)

\* C27: process(q).filters has a key exactly when the corresponding entity is
\* present (price, rating, store_id, format_type, availability with false
\* included, genre), the metadata flags has_price_constraint,
\* has_rating_constraint, has_store_preference and genre_count agree with
\* these, and a query without a recognised constraint yields an empty filter.
C27_FiltersFollowEntities ==
    \A k \in 1..Len(parsed) :
        /\ FiltersFollowEntities(parsed[k])
        /\ KeysFor(parsed[k].entities) = {} => parsed[k].filters = EmptyDict

\* process has returned an availability filter of false next to a format
\* filter
C27_Witness ==
    /\ userQuery = "out of stock ebook"
    /\ parsed # <<>>
    /\ DOMAIN parsed[1].filters = {"availability", "format_type"}
    /\ parsed[1].filters["availability"] = Bare(FALSE)
    /\ parsed[1].entities.availability = Some(FALSE)

(***************************************************************************)
(* Properties of the distributions of the analytics, under SpecRetriever.  *)
(***************************************************************************)
RECURSIVE Total(_)
\* the counts of a distribution, added up
Total(items) ==
    IF items = <<>> THEN 0 ELSE Head(items).count + Total(Tail(items))

\* the counts of the items are in non-increasing order
NonIncreasing(items) ==
    \A k \in 1..(Len(items) - 1) : items[k].count >= items[k + 1].count

\* the number of candidates without format or with the format Physical
PhysicalCandidates ==
    Cardinality({k \in DOMAIN Candidates :
        \/ "format_type" \notin DOMAIN Candidates[k].metadata
        \/ Candidates[k].metadata["format_type"] = "Physical"})

\* the count a distribution has under a key, 0 without the key
CountUnder(items, key) ==
    Total(SelectSeq(items, LAMBDA item : item.key = key))

\* C30: for a non-empty hit list the counts of the genre distribution, of the
\* store distribution and of the format distribution (an item without format
\* counted under "Physical") each sum to total_books, which is the number of
\* hits, and the genre distribution lists its counts in non-increasing order.
C30_DistributionsSumToTotal ==
    Called("analytics") /\ Candidates # <<>>
    => /\ StrategyResult.total_books = Len(indexHits)
       /\ Total(StrategyResult.genre_distribution) = StrategyResult.total_books
       /\ Total(StrategyResult.store_distribution) = StrategyResult.total_books
       /\ Total(StrategyResult.format_distribution) = StrategyResult.total_books
       /\ CountUnder(StrategyResult.format_distribution, "Physical")
              = PhysicalCandidates
       /\ NonIncreasing(StrategyResult.genre_distribution)

\* the analytics strategy counted a hit without format, and the genre seen
\* first is not the most frequent one
C30_Witness ==
    /\ Called("analytics")
    /\ Len(Candidates) = 3
    /\ \E k \in DOMAIN Candidates :
           "format_type" \notin DOMAIN Candidates[k].metadata
    /\ Candidates[1].metadata.genre
           # StrategyResult.genre_distribution[1].key
    /\ StrategyResult.genre_distribution[1].count = 2

(***************************************************************************)
(* Properties of the pipeline, under SpecPipeline.                         *)
(***************************************************************************)
\* the route calls that have returned or raised
Finished == {t \in DOMAIN tasks : tasks[t].pc = "done"}

\* what route(query) produces when it runs alone on the registry and the
\* collaborator of the run
Alone(query, shown) ==
    route_alone(handlers, process(query, hashOrder), shown, indexHits, indexError)

\* C23: with the registry fixed before the first call, every interleaving of
\* concurrent route calls gives each call the envelope of that call run alone,
\* and the registry stays as it was.
C23_InterleavingAsAlone ==
    /\ handlers = lastRegistered
    /\ \A t \in Finished :
        \E shown \in IntentFormats(tasks[t].parsed_query[1].intent) :
            tasks[t].outcome = Alone(tasks[t].query, shown)

\* the second thread's call has returned its envelope while the first call,
\* for another query, is between its parse and its handler
C23_Witness ==
    /\ tasks # <<>>
    /\ tasks[1].pc = "handle"
    /\ tasks[2].pc = "done"
    /\ tasks[1].query # tasks[2].query
    /\ tasks[2].outcome.kind = "returned"
    /\ tasks[2].outcome.envelope.success
    /\ tasks[1].parsed_query[1].intent # tasks[2].parsed_query[1].intent

\* the route calls past process
PastProcess == {t \in DOMAIN tasks : tasks[t].pc # "process"}

\* C25: after process constructed a ParsedQuery, neither route nor any of the
\* six strategies changes one of its fields: the object keeps the value process
\* returned, and the parsed_query of the envelope is this value.
C25_ParsedQueryUnchanged ==
    /\ \A t \in PastProcess :
        tasks[t].parsed_query = Some(process(tasks[t].query, hashOrder))
    /\ \A t \in Finished :
        tasks[t].outcome.kind = "returned"
        => tasks[t].outcome.envelope.parsed_query
               = process(tasks[t].query, hashOrder)

\* a strategy that builds its search text from the keywords and the genres
\* has returned to route, which has returned a success envelope
C25_Witness ==
    /\ tasks # <<>>
    /\ tasks[1].pc = "done"
    /\ tasks[1].handler = Some("information")
    /\ tasks[1].parsed_query[1].keywords # <<>>
    /\ tasks[1].outcome.kind = "returned"
    /\ tasks[1].outcome.envelope.success
    /\ tasks[1].outcome.envelope.result # None

\* the finished route calls that retrieve_for_analytics handled on a
\* collaborator that returns an empty list
AnalyticsOnEmpty ==
    {t \in Finished :
        /\ tasks[t].handler = Some("analytics")
        /\ indexHits = <<>>
        /\ indexError = None}

\* C29: when retrieve_for_analytics is the registered Analytics handler and
\* the collaborator returns an empty list, route returns an envelope with
\* success = true whose result carries the error key; the envelope has no
\* top-level error key.
C29_NoDataIsSuccess ==
    \A t \in AnalyticsOnEmpty :
        /\ tasks[t].outcome.kind = "returned"
        /\ tasks[t].outcome.envelope.success
        /\ "error" \in DOMAIN tasks[t].outcome.envelope.result
        /\ "error" \notin DOMAIN tasks[t].outcome.envelope

\* route has returned for an Analytics query on an empty collaborator
C29_Witness ==
    /\ AnalyticsOnEmpty # {}
    /\ \E t \in AnalyticsOnEmpty :
        /\ tasks[t].query = "how many mystery"
        /\ tasks[t].parsed_query[1].intent = "analytics"
        /\ DOMAIN tasks[t].outcome.envelope
               = {"success", "parsed_query", "result"}

====
